---- MODULE Spec2Model ----
(***************************************************************************)
(* Task chain orchestration of appmorph core: the persisted chain ledger   *)
(* (TaskPersistence), the chain routes (chain query, rollback, reset), the *)
(* staging manager (createChainedStage, cleanupStage), the build manager   *)
(* and the task executor (stage -> agent -> build -> complete).            *)
(***************************************************************************)
EXTENDS Integers, Sequences, FiniteSets, TLC

\* ------------------------------------------------------------------ bounds
\* Number of tasks that are ever created (session ids are 1..MaxTasks).
MaxTasks == 3
\* Number of events of a run beyond tasks executed one after the other without
\* failure: a chain request (chain query, rollback, reset), an external
\* operation of a task's execution that fails (staging copy, agent run, build),
\* a task created while another one is executing, a listener that attaches
\* to a task's stream or disconnects from it, a write of the ledger file that
\* fails, damage done to the ledger file.
MaxEvents == 1
\* Number of plugins that are ever registered.
MaxPlugins == 2
\* Number of pieces (placeholders and other text) of a build command.
MaxCommandLen == 3
\* Number of distinct created_at values of the entries of a persistence file.
MaxCreatedAt == 3
\* Number of progress messages given to the message sanitizer in a run.
MaxMessages == 2

Users == {"u1", "u2"}
Sessions == 1..MaxTasks
\* A session id no task ever gets: the target of a rollback to an unknown session.
UnknownSession == MaxTasks + 1
\* parent_session_id / current_session_id null.
Null == 0
\* target_session_id '__reset_to_original__'.
ResetToOriginal == -1
\* A reset that rolls back to position 0 instead of below it.
ResetPositionZero == 1 - 1
\* rollbackToPosition's target position for the full reset.
ResetPosition == -1

VARIABLES
    ledger,     \* TaskPersistence.data.tasks: the persisted entries, in file order
    fs,         \* the directories on disk: source, stage/<id>, deploy, deploy/<id>
    tasks,      \* the in-memory task store, each execution's position and
                \* whether the executor holds a running-task record for it
    nextId,     \* the number of tasks created so far
    last,       \* the chain request served by the last step and its response
    budget,     \* the number of events (see MaxEvents) the run may still take
    published,  \* per task, the events the executor has emitted, in order
    conns,      \* the SSE connections opened so far and what each was sent
    taskConnections, \* per task, the registered connections, in insertion order
    plugins,    \* PluginLoader.plugins: the registered plugins, in order
    hookRun,    \* the last run of a hook: the plugins invoked and what it returned
    build_command, \* config.build_command, a text with <dist> placeholders
    executed,   \* per session, the build command that was run for it
    served,     \* the deploy server's answer to the request of the last step
    file,       \* the entries of the persistence file
    sanitizer   \* the message sanitizer: buffers, timers, flushes, summaries

stream == <<published, conns, taskConnections>>
hooks == <<plugins, hookRun>>
build == <<build_command, executed>>
vars == <<ledger, fs, tasks, nextId, last, budget, published, conns, taskConnections,
          plugins, hookRun, build_command, executed, served, file, sanitizer>>

\* ------------------------------------------------------------ file system
SourcePath == [root |-> "source", sid |-> 0]
DeployRootPath == [root |-> "deploy", sid |-> 0]
getStagePath(s) == [root |-> "stage", sid |-> s]
getDeployPath(s) == [root |-> "deploy", sid |-> s]
Paths == {SourcePath, DeployRootPath}
         \cup {getStagePath(s) : s \in Sessions}
         \cup {getDeployPath(s) : s \in Sessions}

NoDir == [exists |-> FALSE, files |-> {}]
Dir(files) == [exists |-> TRUE, files |-> files]
File(d, n, b, e) == [dir |-> d, name |-> n, base |-> b, edits |-> e]

\* The project source tree: the app, its manifest with a workspace dependency,
\* and directories the staging copy leaves out.
OriginalSource ==
    Dir({ File("src", "App.tsx", "original", {}),
          File("", "package.json", "workspace:*", {}),
          File("node_modules", "lib.js", "lib", {}),
          File(".git", "HEAD", "ref", {}) })
\* The default (unscoped) deployment in the deploy root.
DefaultDeploy == Dir({ File("", "index.html", "default", {}) })

excludeDirs == {"node_modules", ".git", "dist", ".next", ".turbo"}
copyFiltered(files) == {f \in files : f.dir \notin excludeDirs}

resolveWorkspaceDependencies(files) ==
    { IF f.dir = "" /\ f.name = "package.json" /\ f.base = "workspace:*"
        THEN [f EXCEPT !.base = "file:"] ELSE f : f \in files }

\* A staging that copies from the parent's stage whenever a parent is given,
\* whether the directory is there or not.
ChainedStageFilesOfParent(disk, parentSessionId) ==
    IF parentSessionId # Null
    THEN copyFiltered(disk[getStagePath(parentSessionId)].files)
    ELSE resolveWorkspaceDependencies(copyFiltered(disk[SourcePath].files))
\* createChainedStage(sessionId, parentSessionId): the files of the new stage.
ChainedStageFiles(disk, parentSessionId) ==
    IF parentSessionId # Null /\ disk[getStagePath(parentSessionId)].exists
    THEN copyFiltered(disk[getStagePath(parentSessionId)].files)
    ELSE resolveWorkspaceDependencies(copyFiltered(disk[SourcePath].files))

createChainedStage(disk, sessionId, parentSessionId) ==
    [disk EXCEPT ![getStagePath(sessionId)] =
        Dir(ChainedStageFiles(disk, parentSessionId))]

cleanupStage(disk, sessionId) == [disk EXCEPT ![getStagePath(sessionId)] = NoDir]
cleanupDeploy(disk, sessionId) == [disk EXCEPT ![getDeployPath(sessionId)] = NoDir]

\* -------------------------------------------------------------- the ledger
Entry(s, u, pos, parent) ==
    [session_id |-> s, appmorph_user_id |-> u, chain_position |-> pos,
     parent_session_id |-> parent, status |-> "active"]

RECURSIVE InsertByPosition(_, _)
InsertByPosition(e, sorted) ==
    IF sorted = << >> THEN <<e>>
    ELSE IF e.chain_position < Head(sorted).chain_position
         THEN <<e>> \o sorted
         ELSE <<Head(sorted)>> \o InsertByPosition(e, Tail(sorted))

\* Array.prototype.sort by chain_position (stable).
RECURSIVE SortByPosition(_)
SortByPosition(seq) ==
    IF seq = << >> THEN << >>
    ELSE InsertByPosition(seq[Len(seq)], SortByPosition(SubSeq(seq, 1, Len(seq) - 1)))

\* The chain filter without the test of the entry's user.
IsActiveOfAnyUser(e, u) == e.status = "active"
IsActiveOf(e, u) == e.appmorph_user_id = u /\ e.status = "active"

getUserChain(l, u) == SortByPosition(SelectSeq(l, LAMBDA e : IsActiveOf(e, u)))

HasLatest(l, u) == Len(getUserChain(l, u)) > 0
\* The head lookup taking the first entry of the chain instead of the last.
getFirstTaskForUser(l, u) == getUserChain(l, u)[1]
getLatestTaskForUser(l, u) == getUserChain(l, u)[Len(getUserChain(l, u))]

getTaskBySessionId(l, s) == SelectSeq(l, LAMBDA e : e.session_id = s)

addTaskEntry(l, e) == Append(l, e)

\* The rollback filter with the comparison reversed, and with the target's own
\* position included.
IsRolledBackBelow(e, u, targetPosition) ==
    /\ e.appmorph_user_id = u
    /\ e.chain_position < targetPosition
    /\ e.status = "active"
IsRolledBackFrom(e, u, targetPosition) ==
    /\ e.appmorph_user_id = u
    /\ e.chain_position >= targetPosition
    /\ e.status = "active"
IsRolledBackBy(e, u, targetPosition) ==
    /\ e.appmorph_user_id = u
    /\ e.chain_position > targetPosition
    /\ e.status = "active"

\* rollbackToPosition: the ledger after marking, and the entries marked.
rollbackToPosition(l, u, targetPosition) ==
    [ledger |-> [i \in 1..Len(l) |->
                    IF IsRolledBackBy(l[i], u, targetPosition)
                    THEN [l[i] EXCEPT !.status = "rolled_back"] ELSE l[i]],
     rolledBack |-> SelectSeq(l, LAMBDA e : IsRolledBackBy(e, u, targetPosition))]

\* The deletion filter without the test of the entry's user.
IsDeletableAnyUser(e, u) == e.status = "rolled_back"
IsDeletable(e, u) == e.appmorph_user_id = u /\ e.status = "rolled_back"

\* A deletion that leaves the marked entries in the ledger.
keepRolledBackEntries(l, u) == l
deleteRolledBackEntries(l, u) == SelectSeq(l, LAMBDA e : ~IsDeletable(e, u))

SessionIds(seq) == [i \in 1..Len(seq) |-> seq[i].session_id]
Range(seq) == {seq[i] : i \in 1..Len(seq)}

\* ------------------------------------------------------------------- Init
NoTask == [status |-> "none", user |-> "none", parent |-> Null, head_position |-> -1,
           running |-> FALSE,
           pc |-> "none", wrote |-> FALSE, yielded |-> 0,
           result |-> "none", deployInfo |-> FALSE, error |-> FALSE]
NoRequest == [op |-> "none", user |-> "none", target |-> Null,
              success |-> FALSE, removed_sessions |-> << >>,
              current_session_id |-> Null, error |-> "", chain |-> << >>]

\* No hook has run.
NoRun == [hook |-> "none", outcome |-> "none", reason |-> 0, invoked |-> << >>]

\* A build command is a sequence of pieces: the placeholder <dist>, other
\* text, and (after substitution) the absolute path of a deploy directory.
Dist == [piece |-> "<dist>", sid |-> 0]
Text == [piece |-> "text", sid |-> 0]
PathText(path) == [piece |-> path.root, sid |-> path.sid]
\* The build command of the generated configuration.
DefaultBuildCommand == <<Text, Dist>>

\* No request was made to the deploy server by the last step.
NoResponse == [cookie |-> 0, status |-> "none", path |-> [root |-> "none", sid |-> 0],
               content |-> {}]

\* The tasks whose messages go through the sanitizer.
SanitizedTasks == {1, 2}
\* taskBuffers has no buffer for a task / a new buffer: its messages and
\* whether its timer field holds a running interval.
NoBuffer == [exists |-> FALSE, messages |-> << >>, timer |-> FALSE]
NewBuffer == [exists |-> TRUE, messages |-> << >>, timer |-> FALSE]
\* The sanitizer after initMessageSanitizer (with an OpenAI client): no
\* buffer; per task no interval that runs without a buffer holding it; no
\* flush waiting for its summary; no summary delivered; no message added.
NoSanitizer ==
    [taskBuffers |-> [t \in SanitizedTasks |-> NoBuffer],
     intervals |-> [t \in SanitizedTasks |-> 0],
     flushes |-> {},
     summaries |-> << >>,
     added |-> 0]

\* The persistence file found at construction (empty: there is none).
StartFile(f) == file = f

StartBuild(command) ==
    /\ build_command = command
    /\ served = NoResponse
    /\ executed = [s \in Sessions |-> << >>]

Start(allowed) ==
    /\ ledger = << >>
    /\ fs = [p \in Paths |->
                IF p = SourcePath THEN OriginalSource
                ELSE IF p = DeployRootPath THEN DefaultDeploy ELSE NoDir]
    /\ tasks = [s \in Sessions |-> NoTask]
    /\ nextId = 0
    /\ last = NoRequest
    /\ budget = allowed
    /\ published = [s \in Sessions |-> << >>]
    /\ conns = << >>
    /\ taskConnections = [s \in Sessions |-> << >>]
    /\ plugins = << >>
    /\ hookRun = NoRun
    /\ sanitizer = NoSanitizer

Init == Start(MaxEvents) /\ StartBuild(DefaultBuildCommand) /\ StartFile(<< >>)
\* The same program, in runs that may take one event more.
InitWide == Start(MaxEvents + 1) /\ StartBuild(DefaultBuildCommand) /\ StartFile(<< >>)

\* ----------------------------------------------------- persistence file
\* A field that an entry of the file does not have.
Undefined == -2
\* An entry written before the chain fields existed.
LegacyEntry(s, u, at) ==
    [session_id |-> s, appmorph_user_id |-> u, created_at |-> at,
     status |-> "undefined", chain_position |-> Undefined,
     parent_session_id |-> Undefined]

\* The files without chain metadata: up to MaxTasks entries, with session ids
\* in file order, of any user and with any created_at.
LegacyFiles ==
    UNION {{[i \in 1..n |-> LegacyEntry(i, f[i][1], f[i][2])] :
                f \in [1..n -> Users \X (1..MaxCreatedAt)]} : n \in 1..MaxTasks}

RECURSIVE InsertByCreatedAt(_, _)
InsertByCreatedAt(e, sorted) ==
    IF sorted = << >> THEN <<e>>
    ELSE IF e.created_at < Head(sorted).created_at
         THEN <<e>> \o sorted
         ELSE <<Head(sorted)>> \o InsertByCreatedAt(e, Tail(sorted))

\* A migration that keeps each user's entries in file order.
SortByCreatedAtUnsorted(seq) == seq
\* userTasks.sort((a, b) => a.created_at - b.created_at), a stable sort.
RECURSIVE SortByCreatedAt(_)
SortByCreatedAt(seq) ==
    IF seq = << >> THEN << >>
    ELSE InsertByCreatedAt(seq[Len(seq)], SortByCreatedAt(SubSeq(seq, 1, Len(seq) - 1)))

\* tasksByUser.get(userId), sorted.
UserTasks(f, u) == SortByCreatedAt(SelectSeq(f, LAMBDA e : e.appmorph_user_id = u))

\* The index of an entry in its user's sorted tasks.
IndexIn(userTasks, e) == CHOOSE i \in DOMAIN userTasks : userTasks[i].session_id = e.session_id

\* The fields the migration gives the entry at index i of userTasks, each only
\* where the entry has none.
Migrate(userTasks, i) ==
    LET task == userTasks[i]
    IN [task EXCEPT
          !.status = IF @ = "undefined" THEN "active" ELSE @,
          !.chain_position = IF @ = Undefined THEN i - 1 ELSE @,
          !.parent_session_id =
              IF @ = Undefined
              THEN (IF i > 1 THEN userTasks[i - 1].session_id ELSE Null)
              ELSE @]

\* loadData(): the entries of the file, in file order, after the migration.
loadData(f) ==
    [k \in DOMAIN f |->
        Migrate(UserTasks(f, f[k].appmorph_user_id),
                IndexIn(UserTasks(f, f[k].appmorph_user_id), f[k]))]

\* The ledger entry of a loaded entry.
Loaded(e) ==
    [session_id |-> e.session_id, appmorph_user_id |-> e.appmorph_user_id,
     chain_position |-> e.chain_position,
     parent_session_id |-> e.parent_session_id, status |-> e.status]

\* A file that cannot be read, or whose content is not the JSON of a ledger.
Corrupt ==
    <<[session_id |-> 0, appmorph_user_id |-> "none", created_at |-> 0,
       status |-> "unparsable", chain_position |-> Undefined,
       parent_session_id |-> Undefined]>>

\* The entry of the file that JSON.stringify writes for a ledger entry; tasks
\* are created in the order of their session ids, this gives their created_at.
Stringify(e) ==
    [session_id |-> e.session_id, appmorph_user_id |-> e.appmorph_user_id,
     created_at |-> e.session_id, status |-> e.status,
     chain_position |-> e.chain_position,
     parent_session_id |-> e.parent_session_id]

\* A save that never writes the file.
saveDataNever(f, l, written) == f
\* saveData(): the file after the store with the entries l is saved; a write
\* that throws is caught and logged, and leaves the file as it was.
saveData(f, l, written) ==
    IF written THEN [k \in DOMAIN l |-> Stringify(l[k])] ELSE f

\* A constructor that lets the parse error of a corrupt file escape.
loadDataUncaught(f) ==
    [threw |-> f = Corrupt,
     tasks |-> IF f = Corrupt THEN f ELSE loadData(f)]
\* loadData() inside its try block: a file that is missing, unreadable or
\* unparsable gives { tasks: [] }.
loadDataCaught(f) ==
    [threw |-> FALSE,
     tasks |-> IF f = Corrupt THEN << >> ELSE loadData(f)]

\* The entries of the store that new TaskPersistence(filePath) constructs.
TaskPersistence(f) ==
    [k \in DOMAIN loadDataCaught(f).tasks |-> Loaded(loadDataCaught(f).tasks[k])]

\* new TaskPersistence(filePath): the file is read and migrated, and the
\* migrated entries are saved back.
LoadData ==
    /\ file # << >>
    /\ LET data == loadDataCaught(file)
       IN /\ ledger' = TaskPersistence(file)
          /\ file' = IF file = Corrupt THEN file ELSE data.tasks
          /\ last' = [NoRequest EXCEPT !.op = "load", !.success = ~data.threw]
    /\ served' = NoResponse
    /\ UNCHANGED sanitizer
    /\ UNCHANGED <<fs, tasks, nextId, budget, stream, hooks, build>>

\* ------------------------------------------------------------ create task
\* POST /api/task: the new entry chains from the head of the user's chain.
NewEntry(l, s, u) ==
    IF HasLatest(l, u)
    THEN Entry(s, u, getLatestTaskForUser(l, u).chain_position + 1,
               getLatestTaskForUser(l, u).session_id)
    ELSE Entry(s, u, 0, Null)

\* A step that is, or is not, an event counted by MaxEvents.
Event(counted) ==
    IF counted THEN budget > 0 /\ budget' = budget - 1
    ELSE UNCHANGED budget

Executing == {t \in Sessions : tasks[t].pc \in {"pending", "agent"}}

CreateTask(u) ==
    /\ nextId < MaxTasks
    /\ Event(Executing # {})
    /\ LET s == nextId + 1
           e == NewEntry(ledger, s, u)
       IN /\ ledger' = addTaskEntry(ledger, e)
          /\ tasks' = [tasks EXCEPT ![s] =
                          [NoTask EXCEPT !.status = "pending", !.user = u,
                                         !.parent = e.parent_session_id,
                                         !.pc = "pending"]]
          /\ nextId' = s
    /\ file' = saveData(file, ledger', TRUE)
    /\ last' = NoRequest
    /\ served' = NoResponse
    /\ UNCHANGED sanitizer
    /\ UNCHANGED <<fs, stream, hooks, build>>

\* ------------------------------------------- task creation, step by step
\* Task creation as two steps of the event loop: the handler reads the head of
\* the user's chain, and later appends the entry it built from that head.
\* Whatever runs in between sees the ledger without the new entry.
ReadHead(u) ==
    /\ nextId < MaxTasks
    /\ LET s == nextId + 1
           e == NewEntry(ledger, s, u)
       IN /\ tasks' = [tasks EXCEPT ![s] =
                          [NoTask EXCEPT !.status = "pending", !.user = u,
                                         !.parent = e.parent_session_id,
                                         !.head_position = e.chain_position - 1,
                                         !.pc = "created"]]
          /\ nextId' = s
    /\ last' = NoRequest
    /\ served' = NoResponse
    /\ UNCHANGED sanitizer
    /\ UNCHANGED <<ledger, fs, budget, stream, hooks, build, file>>

\* An append that reads the head again.
PendingEntryOfCurrentHead(l, t) == NewEntry(l, t, tasks[t].user)
\* The entry built from the head that was read: head position + 1, the head
\* as parent.
PendingEntry(l, t) ==
    Entry(t, tasks[t].user, tasks[t].head_position + 1, tasks[t].parent)

AppendEntry(t) ==
    /\ tasks[t].pc = "created"
    /\ ledger' = addTaskEntry(ledger, PendingEntry(ledger, t))
    /\ file' = saveData(file, ledger', TRUE)
    /\ tasks' = [tasks EXCEPT ![t].pc = "pending"]
    /\ last' = [NoRequest EXCEPT !.op = "add", !.user = tasks[t].user, !.success = TRUE]
    /\ served' = NoResponse
    /\ UNCHANGED sanitizer
    /\ UNCHANGED <<fs, nextId, budget, stream, hooks, build>>

\* What saveData logs when the write throws.
SaveError(written) == IF written THEN "" ELSE "Failed to save persistence file"

\* ------------------------------------------------------- the store alone
\* The calls of TaskPersistence, made by any caller with any argument; every
\* mutation ends with saveData(), whose write may fail.
\* deleteRolledBackEntries' return value: the session ids it deleted.
deletedIds(l, u) == SessionIds(SelectSeq(l, LAMBDA e : IsDeletable(e, u)))

AddTaskEntry(u, written) ==
    /\ nextId < MaxTasks
    /\ Event(~written)
    /\ ledger' = addTaskEntry(ledger, NewEntry(ledger, nextId + 1, u))
    /\ nextId' = nextId + 1
    /\ file' = saveData(file, ledger', written)
    /\ last' = [NoRequest EXCEPT !.op = "add", !.user = u, !.success = TRUE,
                                !.error = SaveError(written)]
    /\ served' = NoResponse
    /\ UNCHANGED sanitizer
    /\ UNCHANGED <<fs, tasks, stream, hooks, build>>

RollbackToPosition(u, targetPosition, written) ==
    /\ Event(~written)
    /\ ledger' = rollbackToPosition(ledger, u, targetPosition).ledger
    /\ file' = saveData(file, ledger', written)
    /\ last' = [NoRequest EXCEPT
                  !.op = "mark", !.user = u, !.target = targetPosition,
                  !.success = TRUE, !.error = SaveError(written),
                  !.removed_sessions =
                      SessionIds(rollbackToPosition(ledger, u, targetPosition).rolledBack)]
    /\ served' = NoResponse
    /\ UNCHANGED sanitizer
    /\ UNCHANGED <<fs, tasks, nextId, stream, hooks, build>>

DeleteRolledBackEntries(u, written) ==
    /\ Event(~written)
    /\ ledger' = deleteRolledBackEntries(ledger, u)
    /\ file' = saveData(file, ledger', written)
    /\ last' = [NoRequest EXCEPT
                  !.op = "delete", !.user = u, !.success = TRUE,
                  !.error = SaveError(written),
                  !.removed_sessions = deletedIds(ledger, u)]
    /\ served' = NoResponse
    /\ UNCHANGED sanitizer
    /\ UNCHANGED <<fs, tasks, nextId, stream, hooks, build>>

\* The environment damages the file (truncated, overwritten, made unreadable).
DamageFile ==
    /\ file # Corrupt
    /\ Event(TRUE)
    /\ file' = Corrupt
    /\ last' = NoRequest
    /\ served' = NoResponse
    /\ UNCHANGED sanitizer
    /\ UNCHANGED <<ledger, fs, tasks, nextId, stream, hooks, build>>

\* ------------------------------------------------------------ chain routes
\* A chain response that marks the first entry as the current one.
ChainEntriesFirstCurrent(chain) ==
    [i \in 1..Len(chain) |->
        [session_id |-> chain[i].session_id,
         chain_position |-> chain[i].chain_position,
         is_current |-> (i = 1)]]
\* GET /api/chain: the response's chain entries and current session.
ChainEntries(chain) ==
    [i \in 1..Len(chain) |->
        [session_id |-> chain[i].session_id,
         chain_position |-> chain[i].chain_position,
         is_current |-> (i = Len(chain))]]

CurrentSessionId(chain) ==
    IF Len(chain) > 0 THEN chain[Len(chain)].session_id ELSE Null

GetChain(u) ==
    /\ Event(TRUE)
    /\ last' = [NoRequest EXCEPT
                  !.op = "chain", !.user = u, !.success = TRUE,
                  !.chain = ChainEntries(getUserChain(ledger, u)),
                  !.current_session_id = CurrentSessionId(getUserChain(ledger, u))]
    /\ served' = NoResponse
    /\ UNCHANGED sanitizer
    /\ UNCHANGED <<ledger, fs, tasks, nextId, stream, hooks, build, file>>

\* The cleanup loop of the rollback handlers: cleanupStage then cleanupDeploy for
\* each session id in order, inside one try block. The removal numbered failAt
\* throws (0: none does), which ends the loop.
RECURSIVE CleanupLoop(_, _, _, _)
CleanupLoop(disk, ids, i, failAt) ==
    IF i > Len(ids) THEN disk
    ELSE IF failAt = 2 * i - 1 THEN disk
    ELSE IF failAt = 2 * i THEN cleanupStage(disk, ids[i])
    ELSE CleanupLoop(cleanupDeploy(cleanupStage(disk, ids[i]), ids[i]),
                     ids, i + 1, failAt)

\* The directory the removal numbered k of the loop deletes.
CleanupTarget(ids, k) ==
    IF k % 2 = 1 THEN getStagePath(ids[(k + 1) \div 2]) ELSE getDeployPath(ids[k \div 2])

\* A removal can throw only where there is a directory to remove.
CanFailAt(disk, ids, failAt) ==
    \/ failAt = 0
    \/ /\ failAt \in 1..(2 * Len(ids))
       /\ CleanupLoop(disk, ids, 1, failAt)[CleanupTarget(ids, failAt)].exists

\* The target lookup without the test of the entry's user.
TargetFoundAnyUser(l, target, u) == Len(getTaskBySessionId(l, target)) > 0
\* Target validation of the rollback handler.
TargetFound(l, target, u) ==
    /\ getTaskBySessionId(l, target) # << >>
    /\ getTaskBySessionId(l, target)[1].appmorph_user_id = u

TargetActive(l, target) == getTaskBySessionId(l, target)[1].status = "active"

ResetChain(u, failAt) ==
    LET allSessionIds == SessionIds(getUserChain(ledger, u))
        marked == rollbackToPosition(ledger, u, ResetPosition)
    IN /\ CanFailAt(fs, allSessionIds, failAt)
       /\ fs' = CleanupLoop(fs, allSessionIds, 1, failAt)
       /\ ledger' = deleteRolledBackEntries(marked.ledger, u)
       /\ file' = saveData(file, ledger', TRUE)
       /\ last' = [NoRequest EXCEPT
                     !.op = "rollback", !.user = u,
                     !.target = ResetToOriginal, !.success = TRUE,
                     !.removed_sessions = allSessionIds,
                     !.current_session_id = Null]

RollbackRejected(u, target, message) ==
    /\ last' = [NoRequest EXCEPT
                  !.op = "rollback", !.user = u,
                  !.target = target, !.success = FALSE, !.error = message]
    /\ UNCHANGED <<ledger, fs, file>>

RollbackChain(u, target, failAt) ==
    LET targetEntry == getTaskBySessionId(ledger, target)[1]
        marked == rollbackToPosition(ledger, u, targetEntry.chain_position)
        rolledBackIds == SessionIds(marked.rolledBack)
    IN /\ CanFailAt(fs, rolledBackIds, failAt)
       /\ fs' = CleanupLoop(fs, rolledBackIds, 1, failAt)
       /\ ledger' = deleteRolledBackEntries(marked.ledger, u)
       /\ file' = saveData(file, ledger', TRUE)
       /\ last' = [NoRequest EXCEPT
                     !.op = "rollback", !.user = u,
                     !.target = target, !.success = TRUE,
                     !.removed_sessions = rolledBackIds,
                     !.current_session_id = target]

\* POST /api/chain/rollback.
Rollback(u, target, failAt) ==
    /\ Event(TRUE)
    /\ IF target = ResetToOriginal THEN ResetChain(u, failAt)
       ELSE IF ~TargetFound(ledger, target, u)
            THEN failAt = 0
                 /\ RollbackRejected(u, target, "Target session not found or access denied")
       ELSE IF ~TargetActive(ledger, target)
            THEN failAt = 0
                 /\ RollbackRejected(u, target, "Target session is not active")
       ELSE RollbackChain(u, target, failAt)
    /\ served' = NoResponse
    /\ UNCHANGED sanitizer
    /\ UNCHANGED <<tasks, nextId, stream, hooks, build>>

\* ---------------------------------------------------------- task executor
\* The agent's edit: it rewrites src/App.tsx in its working directory, adding
\* its own change to what the file already holds (the directory is created
\* when it is missing).
IsApp(f) == f.dir = "src" /\ f.name = "App.tsx"

AgentEdit(files, t) ==
    IF \E f \in files : IsApp(f)
    THEN {IF IsApp(f) THEN [f EXCEPT !.edits = f.edits \cup {t}] ELSE f : f \in files}
    ELSE files \cup {File("src", "App.tsx", "new", {t})}

\* The agent run in the stage of the task's parent, and in the project source
\* tree (the executor before staging: repoPath = getProjectPath()).
AgentRepoPathOfParent(t) ==
    IF tasks[t].parent = Null THEN getStagePath(t) ELSE getStagePath(tasks[t].parent)
AgentRepoPathProject(t) == SourcePath
\* AgentRunContext.repoPath of task t's agent run.
AgentRepoPath(t) == getStagePath(t)

\* Events of the executor: progress, complete (carrying the result) and error.
Progress(content) ==
    [type |-> "progress", content |-> content, success |-> FALSE, deployInfo |-> FALSE]
Complete(success, deployInfo) ==
    [type |-> "complete", content |-> "", success |-> success, deployInfo |-> deployInfo]
ErrorEvent(message) ==
    [type |-> "error", content |-> message, success |-> FALSE, deployInfo |-> FALSE]

\* A connection that drops what it is sent.
sendEventDropped(c, ev) == c
\* sendEvent of a connection: the event is written to its response stream.
sendEvent(c, ev) == [c EXCEPT !.received = Append(@, ev)]

\* taskConnections.get(taskId): the connections an event of the task goes to.
Connections(tc, taskId) == tc[taskId]

\* for (const sendEvent of connections) sendEvent(event, data).
RECURSIVE Broadcast(_, _, _)
Broadcast(cs, ids, ev) ==
    IF ids = << >> THEN cs
    ELSE Broadcast([cs EXCEPT ![Head(ids)] = sendEvent(@, ev)], Tail(ids), ev)

\* this.emit(event, task.id, data): the event reaches the route's listener,
\* which sends it to the task's connections and, for a complete or error
\* event, forgets them.
Emit(st, t, ev) ==
    [published |-> [st.published EXCEPT ![t] = Append(@, ev)],
     conns |-> Broadcast(st.conns, Connections(st.taskConnections, t), ev),
     taskConnections |->
        IF ev.type = "progress" THEN st.taskConnections
        ELSE [st.taskConnections EXCEPT ![t] = << >>]]

RECURSIVE EmitAll(_, _, _)
EmitAll(st, t, evs) ==
    IF evs = << >> THEN st ELSE EmitAll(Emit(st, t, Head(evs)), t, Tail(evs))

Publish(t, evs) ==
    LET st == EmitAll([published |-> published, conns |-> conns,
                       taskConnections |-> taskConnections], t, evs)
    IN /\ published' = st.published
       /\ conns' = st.conns
       /\ taskConnections' = st.taskConnections

\* Listeners of the task routes on the executor's events.
OnProgress(task) == [task EXCEPT !.status = "running"]
\* A complete listener that does not look at the result's success flag.
OnCompleteAlwaysCompleted(task, success) ==
    [task EXCEPT !.status = "completed",
                 !.result = IF success THEN "success" ELSE "failure"]
OnComplete(task, success) ==
    [task EXCEPT !.status = IF success THEN "completed" ELSE "failed",
                 !.result = IF success THEN "success" ELSE "failure"]
OnError(task) == [task EXCEPT !.status = "failed", !.error = TRUE]

\* this.runningTasks.set(task.id, { abortController }), after staging.
Register(task) == [task EXCEPT !.running = TRUE]
\* An execute whose exit leaves the running-task record in the map.
FinallyKept(task) == task
\* finally { this.runningTasks.delete(task.id) }.
Finally(task) == [task EXCEPT !.running = FALSE]
\* abort(taskId): true when the executor holds a record for the task (its
\* AbortController is aborted; no code reads the signal).
abort(ts, taskId) == taskId \in DOMAIN ts /\ ts[taskId].running

\* setImmediate callback and step 1 of execute: the stage is created and the
\* agent run starts.
StartTask(t) ==
    /\ tasks[t].pc = "pending"
    /\ fs' = createChainedStage(fs, t, tasks[t].parent)
    /\ tasks' = [tasks EXCEPT ![t] = [Register(OnProgress(@)) EXCEPT !.pc = "agent"]]
    /\ Publish(t, <<Progress("Stage created")>>)
    /\ last' = NoRequest
    /\ served' = NoResponse
    /\ UNCHANGED sanitizer
    /\ UNCHANGED <<ledger, nextId, budget, hooks, build, file>>

\* Step 1 of execute throws: before the stage directory is made ("mkdir") or
\* while the source is copied into it ("copy"). execute returns a failure
\* result and publishes no event.
StageFails(t, at) ==
    /\ tasks[t].pc = "pending"
    /\ fs' = IF at = "copy" THEN [fs EXCEPT ![getStagePath(t)] = Dir({})] ELSE fs
    /\ tasks' = [tasks EXCEPT ![t] = [@ EXCEPT !.status = "running", !.pc = "done"]]
    /\ Event(TRUE)
    /\ last' = NoRequest
    /\ served' = NoResponse
    /\ UNCHANGED sanitizer
    /\ UNCHANGED <<ledger, nextId, stream, hooks, build, file>>

\* The agent loop ended for every task whose execution is over (mutation: it
\* goes on after the terminal event).
AgentRunningOrDone(t) == tasks[t].pc \in {"agent", "done"}
\* The agent loop of task t's execute is between two generator.next() calls.
AgentRunning(t) == tasks[t].pc = "agent"

\* The agent writes its change and yields a progress event.
AgentWrite(t) ==
    /\ AgentRunning(t)
    /\ ~tasks[t].wrote
    /\ fs' = [fs EXCEPT ![AgentRepoPath(t)] = Dir(AgentEdit(@.files, t))]
    /\ tasks' = [tasks EXCEPT ![t] =
                    [OnProgress(@) EXCEPT !.wrote = TRUE, !.yielded = @ + 1]]
    /\ Publish(t, <<Progress("Wrote")>>)
    /\ last' = NoRequest
    /\ served' = NoResponse
    /\ UNCHANGED sanitizer
    /\ UNCHANGED <<ledger, nextId, budget, hooks, build, file>>

\* The agent yields its last progress event.
AgentYield(t) ==
    /\ AgentRunning(t)
    /\ tasks[t].wrote
    /\ tasks[t].yielded = 1
    /\ tasks' = [tasks EXCEPT ![t] = [OnProgress(@) EXCEPT !.yielded = @ + 1]]
    /\ Publish(t, <<Progress("Agent completed")>>)
    /\ last' = NoRequest
    /\ served' = NoResponse
    /\ UNCHANGED sanitizer
    /\ UNCHANGED <<ledger, fs, nextId, budget, hooks, build, file>>

\* The agent run throws: an error event is published.
AgentThrows(t) ==
    /\ AgentRunning(t)
    /\ tasks' = [tasks EXCEPT ![t] = [Finally(OnError(@)) EXCEPT !.pc = "done"]]
    /\ Publish(t, <<ErrorEvent("agent error")>>)
    /\ Event(TRUE)
    /\ last' = NoRequest
    /\ served' = NoResponse
    /\ UNCHANGED sanitizer
    /\ UNCHANGED <<ledger, fs, nextId, hooks, build, file>>

\* A result that carries deploy info whenever the agent succeeded, and a
\* success flag that the build's failure clears.
DeployInfoAfterAgent(t, agentSuccess, outcome) == agentSuccess
ResultSuccessAfterBuild(agentSuccess, outcome) == agentSuccess /\ outcome = "ok"
\* The deploy manager answers getDeployInfo(sessionId) with the session's
\* DeployInfo (TRUE: a record is returned).
getDeployInfo(t) == TRUE
\* deployInfo is set only after a build that reported success.
DeployInfoAttached(t, agentSuccess, outcome) ==
    agentSuccess /\ outcome = "ok" /\ getDeployInfo(t)
\* The result's success flag is the agent's; the build does not alter it.
ResultSuccess(agentSuccess, outcome) == agentSuccess

\* The agent returns a failure result: no build, a complete event is published.
AgentFails(t) ==
    /\ AgentRunning(t)
    /\ tasks' = [tasks EXCEPT ![t] =
                    [Finally(OnComplete(@, ResultSuccess(FALSE, "none"))) EXCEPT
                        !.pc = "done",
                        !.deployInfo = DeployInfoAttached(t, FALSE, "none")]]
    /\ Publish(t, <<Complete(ResultSuccess(FALSE, "none"),
                             DeployInfoAttached(t, FALSE, "none"))>>)
    /\ Event(TRUE)
    /\ last' = NoRequest
    /\ served' = NoResponse
    /\ UNCHANGED sanitizer
    /\ UNCHANGED <<ledger, fs, nextId, hooks, build, file>>

HasManifest(d) == \E f \in d.files : f.dir = "" /\ f.name = "package.json"
NpmInstall(d) == Dir(d.files \cup {File("node_modules", "lib.js", "lib", {})})
BuildOutput(d) ==
    Dir({File("", "build.txt", "build", f.edits) : f \in {g \in d.files : IsApp(g)}})

\* executeBuild(sessionId, stagePath) on disk, by how it ends: "mkdir" (making
\* the deploy directory throws), "install" (npm install exits nonzero),
\* "command" (the build command exits nonzero after npm install ran), "ok".
executeBuild(disk, t, outcome) ==
    LET stage == disk[getStagePath(t)]
        installed == IF stage.exists /\ HasManifest(stage)
                     THEN [disk EXCEPT ![getStagePath(t)] = NpmInstall(stage)]
                     ELSE disk
    IN IF outcome = "mkdir" THEN disk
       ELSE IF outcome = "install"
            THEN [disk EXCEPT ![getDeployPath(t)] = Dir(disk[getDeployPath(t)].files)]
       ELSE IF outcome = "command"
            THEN [installed EXCEPT ![getDeployPath(t)] = Dir(disk[getDeployPath(t)].files)]
       ELSE [installed EXCEPT ![getDeployPath(t)] = BuildOutput(stage)]

BuildOutcomes == {"mkdir", "install", "command", "ok"}

\* String.prototype.replace(pattern, replacement) with a string pattern: the
\* first occurrence of the pattern is replaced, the rest of the text is kept.
RECURSIVE replace(_, _, _)
replace(text, pattern, replacement) ==
    IF text = << >> THEN << >>
    ELSE IF Head(text) = pattern THEN <<replacement>> \o Tail(text)
    ELSE <<Head(text)>> \o replace(Tail(text), pattern, replacement)

\* const buildCommand = this.config.build_command.replace('<dist>', deployPath)
buildCommand(command, t) == replace(command, Dist, PathText(getDeployPath(t)))

\* The command is handed to execSync once npm install has not failed.
Executes(outcome) == outcome \in {"command", "ok"}

\* The build commands that pass the validation of the configuration: they
\* include the placeholder.
BuildCommands ==
    {c \in UNION {[1..n -> {Text, Dist}] : n \in 1..MaxCommandLen} :
        \E i \in DOMAIN c : c[i] = Dist}

\* The build command cannot run in a stage directory that is gone, and npm
\* install runs only where there is a package.json.
BuildCanEnd(disk, t, outcome) ==
    /\ outcome \in BuildOutcomes
    /\ outcome = "ok" => disk[getStagePath(t)].exists
    /\ outcome = "install" =>
          disk[getStagePath(t)].exists /\ HasManifest(disk[getStagePath(t)])

\* The progress events of step 3 of execute.
BuildEvents(outcome) ==
    <<Progress("Starting build"),
      Progress(IF outcome = "ok" THEN "Build completed"
               ELSE IF outcome = "mkdir" THEN "Build error" ELSE "Build failed")>>

\* The agent returns a success result: steps 3 and 4 of execute (build, deploy
\* info, complete event).
AgentSucceeds(t, outcome) ==
    /\ AgentRunning(t)
    /\ tasks[t].yielded = 2
    /\ BuildCanEnd(fs, t, outcome)
    /\ fs' = executeBuild(fs, t, outcome)
    /\ tasks' = [tasks EXCEPT ![t] =
                    [Finally(OnComplete(OnProgress(@), ResultSuccess(TRUE, outcome))) EXCEPT
                        !.pc = "done",
                        !.deployInfo = DeployInfoAttached(t, TRUE, outcome)]]
    /\ Publish(t, BuildEvents(outcome) \o
                  <<Complete(ResultSuccess(TRUE, outcome),
                             DeployInfoAttached(t, TRUE, outcome))>>)
    /\ Event(outcome # "ok")
    /\ last' = NoRequest
    /\ executed' = IF Executes(outcome)
                   THEN [executed EXCEPT ![t] = buildCommand(build_command, t)]
                   ELSE executed
    /\ served' = NoResponse
    /\ UNCHANGED sanitizer
    /\ UNCHANGED <<ledger, nextId, hooks, build_command, file>>

\* executor.abort(taskId), for a task id or an id no task has.
Abort(taskId) ==
    /\ last' = [NoRequest EXCEPT !.op = "abort", !.target = taskId,
                                !.success = abort(tasks, taskId)]
    /\ served' = NoResponse
    /\ UNCHANGED sanitizer
    /\ UNCHANGED <<ledger, fs, tasks, nextId, budget, stream, hooks, build, file>>

\* ------------------------------------------------------------ task stream
\* A stream handler that synthesizes nothing for a finished task.
SynthesizedEventsNone(task) == << >>
\* The terminal event the stream handler synthesizes for a task that is
\* already completed or failed.
SynthesizedEvents(task) ==
    IF task.status = "completed" /\ task.result # "none"
    THEN <<Complete(task.result = "success", task.deployInfo)>>
    ELSE IF task.status = "failed"
         THEN <<ErrorEvent(IF task.error THEN "agent error" ELSE "Task failed")>>
    ELSE << >>

\* GET /api/task/:taskId/stream for an existing task: the connection is
\* registered, greeted with the task's status, and ended at once when the task
\* is already completed or failed.
Attach(t) ==
    /\ tasks[t].status # "none"
    /\ Event(TRUE)
    /\ conns' = Append(conns,
          [task |-> t, since |-> Len(published[t]),
           received |-> <<Progress("Connected")>> \o SynthesizedEvents(tasks[t]),
           ended |-> SynthesizedEvents(tasks[t]) # << >>,
           closed |-> FALSE])
    /\ taskConnections' = [taskConnections EXCEPT ![t] = Append(@, Len(conns) + 1)]
    /\ last' = NoRequest
    /\ served' = NoResponse
    /\ UNCHANGED sanitizer
    /\ UNCHANGED <<ledger, fs, tasks, nextId, published, hooks, build, file>>

\* The client of a connection that was not ended disconnects.
Disconnect(c) ==
    /\ c \in DOMAIN conns
    /\ ~conns[c].ended
    /\ ~conns[c].closed
    /\ conns' = [conns EXCEPT ![c].closed = TRUE]
    /\ taskConnections' =
          [taskConnections EXCEPT ![conns[c].task] = SelectSeq(@, LAMBDA d : d # c)]
    /\ Event(TRUE)
    /\ last' = NoRequest
    /\ served' = NoResponse
    /\ UNCHANGED sanitizer
    /\ UNCHANGED <<ledger, fs, tasks, nextId, published, hooks, build, file>>

\* ------------------------------------------------------------ hook runner
\* What a plugin does for each hook it may implement: "absent" (the method is
\* not defined), "pass" (returns nothing), "veto" (returns a VetoResult whose
\* reason is the plugin's own), "throw"; for authorize "allow" and "deny" (a
\* decision whose reason is the plugin's own).
BeforeHooks == {"beforeAgentRun", "beforeStage", "beforePromote"}
\* The hooks that observe: "absent", "ok" (returns) or "throw"; and
\* resolveUserContext: "absent", "null", "ctx" (returns a user context that
\* is the plugin's own) or "throw".
AfterHooks == {"afterAgentRun", "afterStage", "afterPromote", "onRevert"}
Kind(before, authz, resolve, after, aud) ==
    [beforeAgentRun |-> before[1], beforeStage |-> before[2],
     beforePromote |-> before[3], authorize |-> authz,
     resolveUserContext |-> resolve,
     afterAgentRun |-> after[1], afterStage |-> after[2],
     afterPromote |-> after[3], onRevert |-> after[4], audit |-> aud]
PluginKinds ==
    { Kind(<<"absent", "absent", "absent">>, "absent", "absent",
           <<"absent", "absent", "absent", "absent">>, "absent"),
      Kind(<<"pass", "pass", "pass">>, "allow", "null",
           <<"ok", "ok", "ok", "ok">>, "ok"),
      Kind(<<"veto", "veto", "veto">>, "deny", "ctx",
           <<"ok", "absent", "ok", "throw">>, "throw"),
      Kind(<<"veto", "pass", "absent">>, "absent", "ctx",
           <<"throw", "ok", "absent", "ok">>, "ok"),
      Kind(<<"absent", "absent", "pass">>, "deny", "null",
           <<"absent", "throw", "ok", "absent">>, "absent"),
      Kind(<<"throw", "throw", "throw">>, "throw", "throw",
           <<"throw", "throw", "throw", "throw">>, "throw") }

Plugin(name, kind) == [f \in DOMAIN kind \cup {"name"} |->
                          IF f = "name" THEN name ELSE kind[f]]

\* PluginLoader.registerPlugin(plugin); the plugin is named by its position.
registerPlugin(kind) ==
    /\ Len(plugins) < MaxPlugins
    /\ plugins' = Append(plugins, Plugin(Len(plugins) + 1, kind))
    /\ hookRun' = NoRun
    /\ last' = NoRequest
    /\ served' = NoResponse
    /\ UNCHANGED sanitizer
    /\ UNCHANGED <<ledger, fs, tasks, nextId, budget, stream, build, file>>

\* getPlugins(): a copy of the list, in registration order.
getPlugins == plugins

\* A before-hook whose loop goes on after a veto and returns the last one.
RECURSIVE RunBeforeLastVeto(_, _, _)
RunBeforeLastVeto(ps, hook, run) ==
    IF ps = << >> THEN run
    ELSE LET p == Head(ps)
             invoked == Append(run.invoked, p.name)
         IN IF p[hook] = "absent" THEN RunBeforeLastVeto(Tail(ps), hook, run)
            ELSE IF p[hook] = "throw"
                 THEN [run EXCEPT !.outcome = "throw", !.invoked = invoked]
            ELSE IF p[hook] = "veto"
                 THEN RunBeforeLastVeto(Tail(ps), hook,
                        [run EXCEPT !.outcome = "veto", !.reason = p.name,
                                    !.invoked = invoked])
            ELSE RunBeforeLastVeto(Tail(ps), hook, [run EXCEPT !.invoked = invoked])

\* The loop of a before-hook over the plugins that are left: a plugin without
\* the method is skipped, a result with 'vetoed' is returned at once, an
\* exception ends the run, and null is returned at the end of the list.
RECURSIVE RunBefore(_, _, _)
RunBefore(ps, hook, run) ==
    IF ps = << >> THEN run
    ELSE LET p == Head(ps)
             invoked == Append(run.invoked, p.name)
         IN IF p[hook] = "absent" THEN RunBefore(Tail(ps), hook, run)
            ELSE IF p[hook] = "throw"
                 THEN [run EXCEPT !.outcome = "throw", !.invoked = invoked]
            ELSE IF p[hook] = "veto"
                 THEN [run EXCEPT !.outcome = "veto", !.reason = p.name,
                                  !.invoked = invoked]
            ELSE RunBefore(Tail(ps), hook, [run EXCEPT !.invoked = invoked])

NullRun(hook) == [hook |-> hook, outcome |-> "null", reason |-> 0, invoked |-> << >>]
beforeAgentRun(ps) == RunBefore(ps, "beforeAgentRun", NullRun("beforeAgentRun"))
beforeStage(ps) == RunBefore(ps, "beforeStage", NullRun("beforeStage"))
beforePromote(ps) == RunBefore(ps, "beforePromote", NullRun("beforePromote"))

\* An authorize in which the first decision of any plugin wins.
RECURSIVE RunAuthorizeFirstDecision(_, _)
RunAuthorizeFirstDecision(ps, run) ==
    IF ps = << >> THEN run
    ELSE LET p == Head(ps)
             invoked == Append(run.invoked, p.name)
         IN IF p.authorize = "absent" THEN RunAuthorizeFirstDecision(Tail(ps), run)
            ELSE IF p.authorize = "throw"
                 THEN [run EXCEPT !.outcome = "throw", !.invoked = invoked]
            ELSE IF p.authorize = "deny"
                 THEN [run EXCEPT !.outcome = "deny", !.reason = p.name,
                                  !.invoked = invoked]
            ELSE [run EXCEPT !.invoked = invoked]

\* The loop of authorize: a decision that is not allowed is returned at once,
\* and { allowed: true } at the end of the list.
RECURSIVE RunAuthorize(_, _)
RunAuthorize(ps, run) ==
    IF ps = << >> THEN run
    ELSE LET p == Head(ps)
             invoked == Append(run.invoked, p.name)
         IN IF p.authorize = "absent" THEN RunAuthorize(Tail(ps), run)
            ELSE IF p.authorize = "throw"
                 THEN [run EXCEPT !.outcome = "throw", !.invoked = invoked]
            ELSE IF p.authorize = "deny"
                 THEN [run EXCEPT !.outcome = "deny", !.reason = p.name,
                                  !.invoked = invoked]
            ELSE RunAuthorize(Tail(ps), [run EXCEPT !.invoked = invoked])

authorize(ps) ==
    RunAuthorize(ps, [hook |-> "authorize", outcome |-> "allow", reason |-> 0,
                      invoked |-> << >>])

\* A resolve-hook whose loop goes on after a result and returns the last one.
RECURSIVE RunResolveLast(_, _)
RunResolveLast(ps, run) ==
    IF ps = << >> THEN run
    ELSE LET p == Head(ps)
             invoked == Append(run.invoked, p.name)
         IN IF p.resolveUserContext = "absent" THEN RunResolveLast(Tail(ps), run)
            ELSE IF p.resolveUserContext = "throw"
                 THEN [run EXCEPT !.outcome = "throw", !.invoked = invoked]
            ELSE IF p.resolveUserContext = "ctx"
                 THEN RunResolveLast(Tail(ps),
                        [run EXCEPT !.outcome = "ctx", !.reason = p.name,
                                    !.invoked = invoked])
            ELSE RunResolveLast(Tail(ps), [run EXCEPT !.invoked = invoked])

\* The loop of resolveUserContext: the first result that is not null is
\* returned at once, and null at the end of the list.
RECURSIVE RunResolve(_, _)
RunResolve(ps, run) ==
    IF ps = << >> THEN run
    ELSE LET p == Head(ps)
             invoked == Append(run.invoked, p.name)
         IN IF p.resolveUserContext = "absent" THEN RunResolve(Tail(ps), run)
            ELSE IF p.resolveUserContext = "throw"
                 THEN [run EXCEPT !.outcome = "throw", !.invoked = invoked]
            ELSE IF p.resolveUserContext = "ctx"
                 THEN [run EXCEPT !.outcome = "ctx", !.reason = p.name,
                                  !.invoked = invoked]
            ELSE RunResolve(Tail(ps), [run EXCEPT !.invoked = invoked])

resolveUserContext(ps) == RunResolve(ps, NullRun("resolveUserContext"))

\* An after-hook that stops at the first plugin it has invoked.
RECURSIVE RunAfterOnce(_, _, _)
RunAfterOnce(ps, hook, run) ==
    IF ps = << >> THEN run
    ELSE LET p == Head(ps)
             invoked == Append(run.invoked, p.name)
         IN IF p[hook] = "absent" THEN RunAfterOnce(Tail(ps), hook, run)
            ELSE IF p[hook] = "throw"
                 THEN [run EXCEPT !.outcome = "throw", !.invoked = invoked]
            ELSE [run EXCEPT !.invoked = invoked]

\* The loop of an after-hook: every plugin that has the method is awaited in
\* turn; nothing catches an exception, which ends the run.
RECURSIVE RunAfter(_, _, _)
RunAfter(ps, hook, run) ==
    IF ps = << >> THEN run
    ELSE LET p == Head(ps)
             invoked == Append(run.invoked, p.name)
         IN IF p[hook] = "absent" THEN RunAfter(Tail(ps), hook, run)
            ELSE IF p[hook] = "throw"
                 THEN [run EXCEPT !.outcome = "throw", !.invoked = invoked]
            ELSE RunAfter(Tail(ps), hook, [run EXCEPT !.invoked = invoked])

DoneRun(hook) == [hook |-> hook, outcome |-> "done", reason |-> 0, invoked |-> << >>]
afterAgentRun(ps) == RunAfter(ps, "afterAgentRun", DoneRun("afterAgentRun"))
afterStage(ps) == RunAfter(ps, "afterStage", DoneRun("afterStage"))
afterPromote(ps) == RunAfter(ps, "afterPromote", DoneRun("afterPromote"))
onRevert(ps) == RunAfter(ps, "onRevert", DoneRun("onRevert"))

\* An audit run without the try/catch around each plugin.
RunAuditUncaught(ps, run) == RunAfter(ps, "audit", run)

\* The loop of audit: an exception of a plugin is caught and logged, and the
\* loop goes on.
RECURSIVE RunAudit(_, _)
RunAudit(ps, run) ==
    IF ps = << >> THEN run
    ELSE LET p == Head(ps)
         IN IF p.audit = "absent" THEN RunAudit(Tail(ps), run)
            ELSE RunAudit(Tail(ps), [run EXCEPT !.invoked = Append(@, p.name)])

audit(ps) == RunAudit(ps, DoneRun("audit"))

\* A caller runs one of the hooks over the registered plugins.
CallBeforeAgentRun ==
    /\ hookRun' = beforeAgentRun(getPlugins)
    /\ last' = NoRequest
    /\ served' = NoResponse
    /\ UNCHANGED sanitizer
    /\ UNCHANGED <<ledger, fs, tasks, nextId, budget, stream, plugins, build, file>>

CallBeforeStage ==
    /\ hookRun' = beforeStage(getPlugins)
    /\ last' = NoRequest
    /\ served' = NoResponse
    /\ UNCHANGED sanitizer
    /\ UNCHANGED <<ledger, fs, tasks, nextId, budget, stream, plugins, build, file>>

CallBeforePromote ==
    /\ hookRun' = beforePromote(getPlugins)
    /\ last' = NoRequest
    /\ served' = NoResponse
    /\ UNCHANGED sanitizer
    /\ UNCHANGED <<ledger, fs, tasks, nextId, budget, stream, plugins, build, file>>

CallAuthorize ==
    /\ hookRun' = authorize(getPlugins)
    /\ last' = NoRequest
    /\ served' = NoResponse
    /\ UNCHANGED sanitizer
    /\ UNCHANGED <<ledger, fs, tasks, nextId, budget, stream, plugins, build, file>>

CallResolveUserContext ==
    /\ hookRun' = resolveUserContext(getPlugins)
    /\ last' = NoRequest
    /\ served' = NoResponse
    /\ UNCHANGED sanitizer
    /\ UNCHANGED <<ledger, fs, tasks, nextId, budget, stream, plugins, build, file>>

CallAfterAgentRun ==
    /\ hookRun' = afterAgentRun(getPlugins)
    /\ last' = NoRequest
    /\ served' = NoResponse
    /\ UNCHANGED sanitizer
    /\ UNCHANGED <<ledger, fs, tasks, nextId, budget, stream, plugins, build, file>>

CallAfterStage ==
    /\ hookRun' = afterStage(getPlugins)
    /\ last' = NoRequest
    /\ served' = NoResponse
    /\ UNCHANGED sanitizer
    /\ UNCHANGED <<ledger, fs, tasks, nextId, budget, stream, plugins, build, file>>

CallAfterPromote ==
    /\ hookRun' = afterPromote(getPlugins)
    /\ last' = NoRequest
    /\ served' = NoResponse
    /\ UNCHANGED sanitizer
    /\ UNCHANGED <<ledger, fs, tasks, nextId, budget, stream, plugins, build, file>>

CallOnRevert ==
    /\ hookRun' = onRevert(getPlugins)
    /\ last' = NoRequest
    /\ served' = NoResponse
    /\ UNCHANGED sanitizer
    /\ UNCHANGED <<ledger, fs, tasks, nextId, budget, stream, plugins, build, file>>

CallAudit ==
    /\ hookRun' = audit(getPlugins)
    /\ last' = NoRequest
    /\ served' = NoResponse
    /\ UNCHANGED sanitizer
    /\ UNCHANGED <<ledger, fs, tasks, nextId, budget, stream, plugins, build, file>>

\* ----------------------------------------------------------- deploy server
NoCookie == Null
\* A proxy that ignores the session cookie.
VariantAlwaysDefault(cookie) == DeployRootPath
\* The variant the session cookie selects: the default app from the deploy
\* root without a cookie, deploy/<session_id> with one.
Variant(cookie) ==
    IF cookie = NoCookie THEN DeployRootPath ELSE getDeployPath(cookie)

Response(cookie, path, disk) ==
    [cookie |-> cookie, status |-> "ok", path |-> path, content |-> disk[path].files]

\* What the deploy server may answer: the selected variant when its directory
\* exists; for a cookie whose directory does not exist the behaviour is not
\* specified, and the answer is the default app or an error.
Responses(cookie, disk) ==
    IF disk[Variant(cookie)].exists
    THEN {Response(cookie, Variant(cookie), disk)}
    ELSE {Response(cookie, DeployRootPath, disk),
          [NoResponse EXCEPT !.cookie = cookie, !.status = "error"]}

\* A request to the deploy server, with or without a session cookie.
ProxyRequest(cookie) ==
    /\ served' \in Responses(cookie, fs)
    /\ last' = NoRequest
    /\ UNCHANGED <<ledger, fs, tasks, nextId, budget, stream, hooks, build_command, executed, file>>
    /\ UNCHANGED sanitizer

\* ------------------------------------------------------ message sanitizer
\* stopTimer(taskId): the interval held by the task's buffer is cleared.
stopTimer(sz, taskId) ==
    [sz EXCEPT !.taskBuffers[taskId].timer = FALSE]
\* startTimer(taskId): the task's buffer gets a running interval, unless there
\* is no buffer or it holds one already.
startTimer(sz, taskId) ==
    IF ~sz.taskBuffers[taskId].exists \/ sz.taskBuffers[taskId].timer THEN sz
    ELSE [sz EXCEPT !.taskBuffers[taskId].timer = TRUE]

\* taskBuffers.delete(taskId): the buffer goes; an interval it held keeps
\* running, and nothing refers to it any more.
deleteBuffer(sz, taskId) ==
    [sz EXCEPT !.taskBuffers[taskId] = NoBuffer,
               !.intervals[taskId] = @ + (IF sz.taskBuffers[taskId].timer THEN 1 ELSE 0)]

\* flushBuffer(taskId) up to its await: without buffer or messages it returns;
\* otherwise the messages are taken out of the buffer and sent to summarize.
\* final: the call is completeTask's, whose finally callback deletes the
\* buffer when the flush has ended.
flushBuffer(sz, taskId, final) ==
    LET buffer == sz.taskBuffers[taskId]
        idle == ~buffer.exists \/ buffer.messages = << >>
    IN IF idle /\ ~final THEN sz
       ELSE [sz EXCEPT
               !.taskBuffers[taskId].messages = << >>,
               !.flushes = @ \cup {[task |-> taskId, final |-> final,
                                    messages |-> buffer.messages]}]

\* addMessage(taskId, progress).
AddMessage(taskId) ==
    /\ sanitizer.added < MaxMessages
    /\ LET m == sanitizer.added + 1
           made == IF sanitizer.taskBuffers[taskId].exists THEN sanitizer
                   ELSE [sanitizer EXCEPT !.taskBuffers[taskId] = NewBuffer]
           pushed == [made EXCEPT !.taskBuffers[taskId].messages = Append(@, m),
                                  !.added = m]
       IN sanitizer' = startTimer(pushed, taskId)
    /\ last' = [NoRequest EXCEPT !.op = "addMessage", !.target = taskId]
    /\ served' = NoResponse
    /\ UNCHANGED <<ledger, fs, tasks, nextId, budget, stream, hooks, build, file>>

\* An interval of the task fires: flushBuffer(taskId).
TimerFires(taskId) ==
    /\ sanitizer.taskBuffers[taskId].timer \/ sanitizer.intervals[taskId] > 0
    /\ sanitizer' = flushBuffer(sanitizer, taskId, FALSE)
    /\ last' = [NoRequest EXCEPT !.op = "timer", !.target = taskId]
    /\ served' = NoResponse
    /\ UNCHANGED <<ledger, fs, tasks, nextId, budget, stream, hooks, build, file>>

\* A flush ends: summarize returned or threw, and either way onSummary gets a
\* summary counting the flush's messages (none when the flush had nothing to
\* send); after completeTask's flush the buffer is deleted.
FlushEnds(f) ==
    /\ f \in sanitizer.flushes
    /\ LET ended == [sanitizer EXCEPT
                        !.flushes = @ \ {f},
                        !.summaries = IF f.messages = << >> THEN @
                                      ELSE Append(@, [task |-> f.task,
                                                      messages |-> f.messages])]
       IN sanitizer' = IF f.final THEN deleteBuffer(ended, f.task) ELSE ended
    /\ last' = [NoRequest EXCEPT
                  !.op = IF f.final THEN "completed" ELSE "flushed",
                  !.target = f.task]
    /\ served' = NoResponse
    /\ UNCHANGED <<ledger, fs, tasks, nextId, budget, stream, hooks, build, file>>

\* completeTask(taskId).
CompleteTask(taskId) ==
    /\ sanitizer' = flushBuffer(stopTimer(sanitizer, taskId), taskId, TRUE)
    /\ last' = [NoRequest EXCEPT !.op = "completeTask", !.target = taskId]
    /\ served' = NoResponse
    /\ UNCHANGED <<ledger, fs, tasks, nextId, budget, stream, hooks, build, file>>

\* abortTask(taskId).
AbortTask(taskId) ==
    /\ sanitizer' = deleteBuffer(stopTimer(sanitizer, taskId), taskId)
    /\ last' = [NoRequest EXCEPT !.op = "abortTask", !.target = taskId]
    /\ served' = NoResponse
    /\ UNCHANGED <<ledger, fs, tasks, nextId, budget, stream, hooks, build, file>>

Targets == Sessions \cup {UnknownSession, ResetToOriginal}

Next ==
    \/ \E u \in Users : CreateTask(u)
    \/ \E u \in Users : GetChain(u)
    \/ \E u \in Users, target \in Targets, failAt \in 0..(2 * MaxTasks) :
          Rollback(u, target, failAt)
    \/ \E t \in Sessions : StartTask(t)
    \/ \E t \in Sessions, at \in {"mkdir", "copy"} : StageFails(t, at)
    \/ \E t \in Sessions : AgentWrite(t)
    \/ \E t \in Sessions : AgentYield(t)
    \/ \E t \in Sessions : AgentThrows(t)
    \/ \E t \in Sessions : AgentFails(t)
    \/ \E t \in Sessions, outcome \in BuildOutcomes :
          AgentSucceeds(t, outcome)

Spec == Init /\ [][Next]_vars
SpecWide == InitWide /\ [][Next]_vars

\* The task routes alone: tasks are created, executed and streamed to
\* connections. The chain routes neither read nor write the task store, the
\* published events or the connections, and are left out; the task routes
\* treat every user alike, so one user creates the tasks.
NextStream ==
    \/ CreateTask("u1")
    \/ \E t \in Sessions : StartTask(t)
    \/ \E t \in Sessions, at \in {"mkdir", "copy"} : StageFails(t, at)
    \/ \E t \in Sessions : AgentWrite(t)
    \/ \E t \in Sessions : AgentYield(t)
    \/ \E t \in Sessions : AgentThrows(t)
    \/ \E t \in Sessions : AgentFails(t)
    \/ \E t \in Sessions, outcome \in BuildOutcomes :
          AgentSucceeds(t, outcome)
    \/ \E t \in Sessions : Attach(t)
    \/ \E c \in 1..(MaxEvents + 1) : Disconnect(c)

SpecStream == InitWide /\ [][NextStream]_vars

\* The plugin loader and the hook runner on their own.
NextHooks ==
    \/ \E kind \in PluginKinds : registerPlugin(kind)
    \/ CallBeforeAgentRun
    \/ CallBeforeStage
    \/ CallBeforePromote
    \/ CallAuthorize
    \/ CallResolveUserContext
    \/ CallAfterAgentRun
    \/ CallAfterStage
    \/ CallAfterPromote
    \/ CallOnRevert
    \/ CallAudit

SpecHooks == Init /\ [][NextHooks]_vars

\* The plugin loader and the execution of tasks.
NextExecutor ==
    \/ \E kind \in PluginKinds : registerPlugin(kind)
    \/ CreateTask("u1")
    \/ \E t \in Sessions : StartTask(t)
    \/ \E t \in Sessions, at \in {"mkdir", "copy"} : StageFails(t, at)
    \/ \E t \in Sessions : AgentWrite(t)
    \/ \E t \in Sessions : AgentYield(t)
    \/ \E t \in Sessions : AgentThrows(t)
    \/ \E t \in Sessions : AgentFails(t)
    \/ \E t \in Sessions, outcome \in BuildOutcomes : AgentSucceeds(t, outcome)

SpecExecutor == Init /\ [][NextExecutor]_vars

\* The execution of tasks under each build command that the configuration
\* accepts.
InitBuild ==
    Start(MaxEvents) /\ StartFile(<< >>) /\ \E c \in BuildCommands : StartBuild(c)
NextBuild ==
    \/ CreateTask("u1")
    \/ \E t \in Sessions : StartTask(t)
    \/ \E t \in Sessions, at \in {"mkdir", "copy"} : StageFails(t, at)
    \/ \E t \in Sessions : AgentWrite(t)
    \/ \E t \in Sessions : AgentYield(t)
    \/ \E t \in Sessions : AgentThrows(t)
    \/ \E t \in Sessions : AgentFails(t)
    \/ \E t \in Sessions, outcome \in BuildOutcomes : AgentSucceeds(t, outcome)

SpecBuild == InitBuild /\ [][NextBuild]_vars

\* The execution of tasks and the deploy server.
NextProxy ==
    \/ CreateTask("u1")
    \/ \E t \in Sessions : StartTask(t)
    \/ \E t \in Sessions, at \in {"mkdir", "copy"} : StageFails(t, at)
    \/ \E t \in Sessions : AgentWrite(t)
    \/ \E t \in Sessions : AgentYield(t)
    \/ \E t \in Sessions : AgentThrows(t)
    \/ \E t \in Sessions : AgentFails(t)
    \/ \E t \in Sessions, outcome \in BuildOutcomes : AgentSucceeds(t, outcome)
    \/ \E cookie \in {NoCookie} \cup Sessions : ProxyRequest(cookie)

SpecProxy == Init /\ [][NextProxy]_vars

\* The construction of the persistence over each file without chain metadata.
InitLoad ==
    /\ Start(MaxEvents) /\ StartBuild(DefaultBuildCommand)
    /\ \E f \in LegacyFiles : StartFile(f)
NextLoad == LoadData

SpecLoad == InitLoad /\ [][NextLoad]_vars

\* The store on its own: entries are added, marked and deleted by any caller,
\* the file is damaged, and the process restarts and constructs the store anew.
NextStore ==
    \/ \E u \in Users, written \in BOOLEAN : AddTaskEntry(u, written)
    \/ \E u \in Users, k \in (-1)..(MaxTasks - 1), written \in BOOLEAN :
          RollbackToPosition(u, k, written)
    \/ \E u \in Users, written \in BOOLEAN : DeleteRolledBackEntries(u, written)
    \/ DamageFile
    \/ LoadData

SpecStore == Init /\ [][NextStore]_vars

\* The executions of tasks together with calls of abort.
NextAbort ==
    \/ \E u \in Users : CreateTask(u)
    \/ \E t \in Sessions : StartTask(t)
    \/ \E t \in Sessions, at \in {"mkdir", "copy"} : StageFails(t, at)
    \/ \E t \in Sessions : AgentWrite(t)
    \/ \E t \in Sessions : AgentYield(t)
    \/ \E t \in Sessions : AgentThrows(t)
    \/ \E t \in Sessions : AgentFails(t)
    \/ \E t \in Sessions, outcome \in BuildOutcomes : AgentSucceeds(t, outcome)
    \/ \E taskId \in Sessions \cup {UnknownSession} : Abort(taskId)

SpecAbort == Init /\ [][NextAbort]_vars

\* The rollback route over the tasks of one user, created and executed
\* without failure; either user asks for the rollback.
NextChain ==
    \/ CreateTask("u1")
    \/ \E t \in Sessions : StartTask(t)
    \/ \E t \in Sessions : AgentWrite(t)
    \/ \E t \in Sessions : AgentYield(t)
    \/ \E t \in Sessions : AgentSucceeds(t, "ok")
    \/ \E u \in Users, target \in Targets, failAt \in 0..(2 * MaxTasks) :
          Rollback(u, target, failAt)

SpecChain == InitWide /\ [][NextChain]_vars

\* The message sanitizer and its callers.
NextSanitizer ==
    \/ \E t \in SanitizedTasks : AddMessage(t)
    \/ \E t \in SanitizedTasks : TimerFires(t)
    \/ \E f \in sanitizer.flushes : FlushEnds(f)
    \/ \E t \in SanitizedTasks : CompleteTask(t)
    \/ \E t \in SanitizedTasks : AbortTask(t)

SpecSanitizer == Init /\ [][NextSanitizer]_vars

\* Task creations in two steps, interleaved with each other and with the
\* chain routes.
NextRace ==
    \/ \E u \in Users : ReadHead(u)
    \/ \E t \in Sessions : AppendEntry(t)
    \/ \E u \in Users : GetChain(u)
    \/ \E u \in Users, target \in Targets : Rollback(u, target, 0)

SpecRace == InitWide /\ [][NextRace]_vars

\* ================================================================ claims
\* The indices of user u's active entries in the ledger.
ActiveIdx(l, u) ==
    {i \in DOMAIN l : l[i].appmorph_user_id = u /\ l[i].status = "active"}
LedgerIds(l) == {l[i].session_id : i \in DOMAIN l}
\* The request served by this step is a rollback or reset (a step of any other
\* kind clears the response).
RollbackStep == last'.op = "rollback"

\* C1: for every user, the chain_position values of the user's active entries
\* are exactly 0, 1, ..., n-1 (n the number of active entries): no gap and no
\* duplicate, after any sequence of task creations, rollbacks and resets.
C1_PositionsContiguous ==
    \A u \in Users :
        \A p \in 0..(Cardinality(ActiveIdx(ledger, u)) - 1) :
            Cardinality({i \in ActiveIdx(ledger, u) : ledger[i].chain_position = p}) = 1

\* A task created after a rollback removed an entry: sessions 1 and 3 make a
\* chain of two, session 2 is gone.
C1_Witness ==
    /\ 2 \notin LedgerIds(ledger)
    /\ \E i, j \in DOMAIN ledger :
          /\ ledger[i].session_id = 1 /\ ledger[j].session_id = 3
          /\ ledger[i].appmorph_user_id = ledger[j].appmorph_user_id
          /\ ledger[i].chain_position = 0 /\ ledger[j].chain_position = 1

\* C2: each active entry at position p > 0 has as parent_session_id the session
\* of the same user's active entry at position p-1, the entry at position 0 has
\* parent null; and while none of a user's sessions was removed, the i-th task
\* the user created is at position i-1 with the (i-1)-th as parent.
CreatedBy(u) == {s \in Sessions : tasks[s].user = u}
C2_ParentLinks ==
    \A u \in Users :
        /\ \A i \in ActiveIdx(ledger, u) :
              IF ledger[i].chain_position = 0
              THEN ledger[i].parent_session_id = Null
              ELSE \E j \in ActiveIdx(ledger, u) :
                      /\ ledger[j].chain_position = ledger[i].chain_position - 1
                      /\ ledger[j].session_id = ledger[i].parent_session_id
        /\ CreatedBy(u) \subseteq LedgerIds(ledger) =>
              \A i \in DOMAIN ledger :
                  ledger[i].appmorph_user_id = u =>
                      LET earlier == {s \in CreatedBy(u) : s < ledger[i].session_id}
                      IN /\ ledger[i].chain_position = Cardinality(earlier)
                         /\ ledger[i].parent_session_id =
                               IF earlier = {} THEN Null
                               ELSE CHOOSE s \in earlier : \A r \in earlier : r <= s

\* Three tasks created one after the other by one user, none removed.
C2_Witness ==
    /\ Len(ledger) = 3
    /\ \A i \in 1..3 : /\ ledger[i].appmorph_user_id = "u1"
                       /\ ledger[i].session_id = i
                       /\ tasks[i].pc = "done"

\* C3: a rollback to an active session of the requesting user at position k
\* leaves exactly the user's entries at positions 0..k (and every other user's
\* entries) in the ledger, unchanged and active; removed_sessions are exactly
\* the sessions of the entries that were active at positions > k, none of them
\* remains in the ledger, and current_session_id is the target.
TargetPosition(l, target) ==
    (CHOOSE e \in Range(l) : e.session_id = target).chain_position
C3_RollbackPrecision ==
    [][(RollbackStep /\ last'.success /\ last'.target # ResetToOriginal) =>
        LET u == last'.user
            k == TargetPosition(ledger, last'.target)
            gone == {i \in ActiveIdx(ledger, u) : ledger[i].chain_position > k}
        IN /\ ledger' = SelectSeq(ledger, LAMBDA e :
                            ~(e.appmorph_user_id = u /\ e.chain_position > k))
           /\ \A i \in DOMAIN ledger' : ledger'[i].status = "active"
           /\ {ledger'[i].chain_position : i \in ActiveIdx(ledger', u)} = 0..k
           /\ Range(last'.removed_sessions) = {ledger[i].session_id : i \in gone}
           /\ Len(last'.removed_sessions) = Cardinality(gone)
           /\ Range(last'.removed_sessions) \cap LedgerIds(ledger') = {}
           /\ last'.current_session_id = last'.target]_vars

\* A rollback to session 1 that removed two sessions.
C3_Witness ==
    /\ last.op = "rollback" /\ last.success /\ last.target = 1
    /\ Len(last.removed_sessions) = 2
    /\ LedgerIds(ledger) = {1}

\* C4: a rollback whose target is unknown, belongs to another user or is not
\* active is answered with success = false and an error message, and changes
\* no ledger entry and no directory.
IsValidTarget(l, u, target) ==
    \E i \in ActiveIdx(l, u) : l[i].session_id = target
C5_FullReset ==
    [][(RollbackStep /\ last'.target = ResetToOriginal) =>
        LET u == last'.user
        IN /\ last'.success
           /\ Range(last'.removed_sessions) =
                 {ledger[i].session_id : i \in ActiveIdx(ledger, u)}
           /\ Len(last'.removed_sessions) = Cardinality(ActiveIdx(ledger, u))
           /\ last'.current_session_id = Null
           /\ ActiveIdx(ledger', u) = {}
           /\ ChainEntries(getUserChain(ledger', u)) = << >>
           /\ CurrentSessionId(getUserChain(ledger', u)) = Null]_vars

\* A reset that removed a chain of three.
C5_Witness ==
    /\ last.op = "rollback" /\ last.target = ResetToOriginal /\ last.success
    /\ Len(last.removed_sessions) = 3
    /\ ledger = << >>

\* The step creates a task / stages task t (the first step of its execution).
CreateStep == nextId' # nextId
StageStep(t) == tasks[t].pc = "pending" /\ tasks'[t].pc = "agent"
\* Task t was created after a rollback to its parent: a session the same user
\* created between the parent and t was removed before t was created.
CreatedAfterRollback(t) ==
    /\ tasks[t].parent # Null
    /\ \E r \in Sessions : /\ tasks[t].parent < r /\ r < t
                           /\ tasks[r].user = tasks[t].user
\* The edits (the sessions whose agent wrote them) found in a directory.
EditsIn(d) == UNION {f.edits : f \in d.files}

\* C6 (as stated): the stage of a task created after a rollback is copied from
\* the stage of the session the rollback went back to.
C6_StageCopiedFromTarget ==
    [][\A t \in Sessions :
          (StageStep(t) /\ CreatedAfterRollback(t)) =>
              /\ fs[getStagePath(tasks[t].parent)].exists
              /\ fs'[getStagePath(t)] =
                    Dir(copyFiltered(fs[getStagePath(tasks[t].parent)].files))]_vars

\* C6 (amended): after a rollback to position k the next task the user creates
\* gets chain_position k+1 and the session at position k as parent (every new
\* task chains from the head of its user's chain); its stage is copied from
\* that session's stage when that stage directory exists and from the original
\* source otherwise; and no stage of a session in the ledger contains an edit
\* of a session that is not at or below it in its user's chain, so none of a
\* removed session.
C6_NewTaskChainsFromTarget ==
    /\ [](\A i \in DOMAIN ledger :
            EditsIn(fs[getStagePath(ledger[i].session_id)]) \subseteq
                {ledger[j].session_id :
                    j \in {a \in ActiveIdx(ledger, ledger[i].appmorph_user_id) :
                              ledger[a].chain_position <= ledger[i].chain_position}})
    /\ [][CreateStep =>
            LET e == ledger'[Len(ledger')]
                u == e.appmorph_user_id
                act == ActiveIdx(ledger, u)
            IN /\ Len(ledger') = Len(ledger) + 1
               /\ e.session_id = nextId'
               /\ IF act = {}
                  THEN e.chain_position = 0 /\ e.parent_session_id = Null
                  ELSE \E h \in act :
                          /\ \A a \in act : ledger[a].chain_position <= ledger[h].chain_position
                          /\ e.chain_position = ledger[h].chain_position + 1
                          /\ e.parent_session_id = ledger[h].session_id
               /\ (last.op = "rollback" /\ last.success /\ last.user = u
                        /\ last.target # ResetToOriginal) =>
                      /\ e.chain_position = TargetPosition(ledger, last.target) + 1
                      /\ e.parent_session_id = last.target]_vars
    /\ [][\A t \in Sessions :
            (StageStep(t) /\ CreatedAfterRollback(t)) =>
                fs'[getStagePath(t)] =
                    IF fs[getStagePath(tasks[t].parent)].exists
                    THEN Dir(copyFiltered(fs[getStagePath(tasks[t].parent)].files))
                    ELSE Dir(resolveWorkspaceDependencies(copyFiltered(OriginalSource.files)))]_vars

\* Session 3 was created after a rollback to session 1 that removed session 2,
\* whose agent had written its edit; session 3 is staged from session 1's
\* stage and holds session 1's edit only.
C6_Witness ==
    /\ LedgerIds(ledger) = {1, 3}
    /\ tasks[2].wrote /\ tasks[2].user = tasks[3].user
    /\ tasks[3].parent = 1 /\ tasks[3].pc = "agent"
    /\ EditsIn(fs[getStagePath(3)]) = {1}

\* C7 (as stated): in every reachable state a stage or deploy directory of
\* session S exists only if the ledger has an entry for S, also when a rollback
\* arrives while a task is executing and when a rollback's cleanup fails.
C7_DirectoriesHaveEntries ==
    \A s \in Sessions :
        (fs[getStagePath(s)].exists \/ fs[getDeployPath(s)].exists) =>
            s \in LedgerIds(ledger)

\* C8 (as stated): a task staged with a parent whose stage directory exists
\* starts with every non-excluded file of the parent's stage, the parent's
\* edits included; and after a rollback the stage directory of every removed
\* session no longer exists.
C8_InheritsParentStage ==
    \A t \in Sessions :
        (StageStep(t) /\ tasks[t].parent # Null
                /\ fs[getStagePath(tasks[t].parent)].exists) =>
            /\ fs'[getStagePath(t)].exists
            /\ fs'[getStagePath(t)].files =
                  {f \in fs[getStagePath(tasks[t].parent)].files :
                        f.dir \notin {"node_modules", ".git", "dist", ".next", ".turbo"}}
            /\ EditsIn(fs[getStagePath(tasks[t].parent)]) \subseteq EditsIn(fs'[getStagePath(t)])
C8_RemovedStageGone ==
    (RollbackStep /\ last'.success /\ last'.target # ResetToOriginal) =>
        \A i \in DOMAIN last'.removed_sessions :
            ~fs'[getStagePath(last'.removed_sessions[i])].exists
C8_ChainedStageAndRollback ==
    [][C8_InheritsParentStage /\ C8_RemovedStageGone]_vars

\* C9: staging and running another task, and a rollback that does not remove
\* session S, leave the stage directory of S as it was; the stage of a session
\* in the ledger whose agent wrote holds that session's edit and no edit of a
\* session created after it.
C9_StageFrame ==
    /\ [](\A S \in LedgerIds(ledger) :
            tasks[S].wrote =>
                /\ fs[getStagePath(S)].exists
                /\ S \in EditsIn(fs[getStagePath(S)])
                /\ EditsIn(fs[getStagePath(S)]) \cap {t \in Sessions : t > S} = {})
    /\ [][\A S \in Sessions :
            (/\ tasks'[S] = tasks[S]
             /\ ~(RollbackStep /\ S \in Range(last'.removed_sessions))) =>
                fs'[getStagePath(S)] = fs[getStagePath(S)]]_vars

\* Task 2 chained from task 1 and task 3 from task 2, all three agents wrote,
\* and a rollback to task 1 removed tasks 2 and 3: stage 1 holds edit 1 only.
C9_Witness ==
    /\ last.op = "rollback" /\ last.success /\ last.target = 1
    /\ Range(last.removed_sessions) = {2, 3}
    /\ tasks[2].parent = 1 /\ tasks[3].parent = 2
    /\ tasks[1].wrote /\ tasks[2].wrote /\ tasks[3].wrote
    /\ EditsIn(fs[getStagePath(1)]) = {1}
    /\ ~fs[getStagePath(2)].exists /\ ~fs[getStagePath(3)].exists

\* C10: the project source tree and the default deployment are never changed;
\* a step of task t's execution changes no directory but the stage and the
\* deploy directory of t (the agent writes in the stage of its own session),
\* and a rollback or reset changes no directory but the stage and deploy
\* directories of the sessions it removed, which it deletes.
C10_SourceAndDefaultDeployUntouched ==
    /\ [](fs[SourcePath] = OriginalSource /\ fs[DeployRootPath] = DefaultDeploy)
    /\ [][\A p \in Paths :
            fs'[p] # fs[p] =>
                IF RollbackStep
                THEN /\ p.root \in {"stage", "deploy"}
                     /\ \E i \in DOMAIN last'.removed_sessions :
                            p.sid = last'.removed_sessions[i]
                     /\ ~fs'[p].exists
                ELSE \E t \in Sessions :
                        /\ tasks'[t] # tasks[t]
                        /\ p \in {getStagePath(t), getDeployPath(t)}]_vars

\* A task's agent has written and its build has produced a deployment, another
\* task's directories were deleted by a rollback.
C10_Witness ==
    /\ last.op = "rollback" /\ last.success /\ Len(last.removed_sessions) > 0
    /\ \E t \in Sessions :
          /\ tasks[t].wrote /\ tasks[t].result = "success"
          /\ t \in EditsIn(fs[getStagePath(t)])
          /\ fs[getDeployPath(t)].exists
    /\ \E r \in Range(last.removed_sessions) :
          tasks[r].wrote /\ ~fs[getStagePath(r)].exists

\* C11: a task's status only moves pending -> running -> completed or
\* pending -> running -> failed; once it is completed or failed nothing of
\* the task changes again, so no step of its execution happens a second time.
TerminalStatus == {"completed", "failed"}
C11_StatusMoves ==
    [][\A t \in Sessions :
          /\ tasks'[t].status # tasks[t].status =>
                <<tasks[t].status, tasks'[t].status>> \in
                    {<<"none", "pending">>, <<"pending", "running">>,
                     <<"running", "completed">>, <<"running", "failed">>}
          /\ tasks[t].status \in TerminalStatus => tasks'[t] = tasks[t]
          /\ tasks[t].pc = "done" => tasks'[t].pc = "done"]_vars

\* A task completed and a task failed, each after its agent wrote, and a
\* third task was created after both had ended.
C11_Witness ==
    /\ tasks[1].status = "completed" /\ tasks[1].wrote
    /\ tasks[2].status = "failed" /\ tasks[2].wrote
    /\ tasks[3].status = "pending"

\* C12 (as stated): when creating the stage failed, the task is in the terminal
\* status failed once its execution is over, and neither the agent nor the
\* build ran for it.
StageFailed(t) ==
    tasks[t].pc = "done" /\ tasks[t].result = "none" /\ ~tasks[t].error
C12_StageFailureFailsTask ==
    \A t \in Sessions :
        StageFailed(t) =>
            /\ tasks[t].status = "failed"
            /\ ~tasks[t].wrote
            /\ ~fs[getDeployPath(t)].exists

\* The events published for task t that satisfy a test, as a set of indices.
EventsOf(t, type) == {i \in DOMAIN published[t] : published[t][i].type = type}
BuildRan(t) ==
    \/ fs[getDeployPath(t)].exists
    \/ \E i \in DOMAIN published[t] : published[t][i].content = "Starting build"

\* C13: when the agent threw, or returned a result whose success flag is
\* false, the task is in status failed, the build was not run for it and no
\* deploy info is attached to its result or to a published event.
AgentFailed(t) == tasks[t].error \/ tasks[t].result = "failure"
C13_AgentFailureFailsTask ==
    \A t \in Sessions :
        AgentFailed(t) =>
            /\ tasks[t].status = "failed"
            /\ ~BuildRan(t)
            /\ ~tasks[t].deployInfo
            /\ \A i \in DOMAIN published[t] : ~published[t][i].deployInfo

\* The agent of a task wrote its change and then returned a failure result;
\* the complete event that carried it is the last event of the task.
C13_Witness ==
    \E t \in Sessions :
        /\ tasks[t].result = "failure" /\ tasks[t].wrote
        /\ tasks[t].status = "failed"
        /\ published[t][Len(published[t])] = Complete(FALSE, FALSE)

\* C14: when the agent succeeded and the build then failed (npm install or
\* the build command exits nonzero, or the build step throws), the result's
\* success flag stays true, the task ends with a complete event, never an
\* error event, and its status is completed.
BuildFailed(t) ==
    \E i \in DOMAIN published[t] :
        published[t][i].content \in {"Build failed", "Build error"}
C14_BuildFailureKeepsSuccess ==
    \A t \in Sessions :
        BuildFailed(t) =>
            /\ tasks[t].result = "success"
            /\ tasks[t].status = "completed"
            /\ ~tasks[t].error
            /\ EventsOf(t, "error") = {}
            /\ published[t][Len(published[t])] = Complete(TRUE, FALSE)

\* The build step of a task threw after its agent had written and succeeded.
C14_Witness ==
    \E t \in Sessions :
        /\ tasks[t].wrote /\ tasks[t].status = "completed"
        /\ \E i \in DOMAIN published[t] : published[t][i].content = "Build error"
        /\ published[t][Len(published[t])].type = "complete"

\* C15: the result published for a task carries deploy info exactly when the
\* agent succeeded and the build succeeded; after an agent failure, a build
\* failure or a build exception it carries none.
BuildSucceeded(t) ==
    \E i \in DOMAIN published[t] : published[t][i].content = "Build completed"
C15_DeployInfoIffBuilt ==
    \A t \in Sessions :
        /\ \A i \in EventsOf(t, "complete") :
              published[t][i].deployInfo <=>
                  (published[t][i].success /\ BuildSucceeded(t))
        /\ tasks[t].deployInfo <=>
              (tasks[t].result = "success" /\ BuildSucceeded(t))

\* One task was built and published with deploy info; another task's build
\* failed and its result was published without.
C15_Witness ==
    \E t, u \in Sessions :
        /\ Complete(TRUE, TRUE) \in {published[t][i] : i \in DOMAIN published[t]}
        /\ fs[getDeployPath(t)].exists
        /\ BuildFailed(u)
        /\ Complete(TRUE, FALSE) \in {published[u][i] : i \in DOMAIN published[u]}

\* C16: the progress events the agent yields for a task are published in
\* the order of their emission and before the task's terminal event, which
\* is the last event published for the task; a listener attached while the
\* task runs has received, after its greeting, exactly the events published
\* for its task since it attached, in the order of their emission (the first
\* of them if the client disconnected meanwhile), and so no event of another
\* task.
IsPrefix(s, t) == Len(s) <= Len(t) /\ s = SubSeq(t, 1, Len(s))
AgentYields == <<Progress("Wrote"), Progress("Agent completed")>>
PublishedSince(c) ==
    SubSeq(published[conns[c].task], conns[c].since + 1, Len(published[conns[c].task]))
C16_EventsInOrder ==
    /\ \A t \in Sessions :
          /\ \A i \in DOMAIN published[t] :
                published[t][i].type # "progress" => i = Len(published[t])
          /\ SelectSeq(published[t], LAMBDA ev : ev \in {AgentYields[1], AgentYields[2]})
                = SubSeq(AgentYields, 1, tasks[t].yielded)
    /\ \A c \in DOMAIN conns :
          ~conns[c].ended =>
              /\ IsPrefix(conns[c].received, <<Progress("Connected")>> \o PublishedSince(c))
              /\ ~conns[c].closed =>
                    conns[c].received = <<Progress("Connected")>> \o PublishedSince(c)

\* A listener attached to a running task after its first events, and has
\* since received the rest of them up to the complete event, while another
\* task published events of its own.
C16_Witness ==
    \E c \in DOMAIN conns :
        /\ ~conns[c].ended /\ ~conns[c].closed
        /\ conns[c].since >= 1
        /\ Len(conns[c].received) >= 4
        /\ conns[c].received[Len(conns[c].received)].type = "complete"
        /\ \E u \in Sessions \ {conns[c].task} : Len(published[u]) >= 2

\* C17: a listener that attached after its task's terminal event was
\* published has received its greeting and one synthesized terminal event
\* that matches the outcome (a complete event carrying the stored result for
\* a completed task, an error event for a failed one), none of the progress
\* events published earlier, and its stream was ended.
AttachedAfterTerminal(c) ==
    /\ conns[c].since >= 1
    /\ published[conns[c].task][conns[c].since].type # "progress"
C17_LateListenerGetsOutcome ==
    \A c \in DOMAIN conns :
        LET task == tasks[conns[c].task]
            terminal == published[conns[c].task][conns[c].since]
        IN /\ AttachedAfterTerminal(c) =>
                /\ conns[c].ended
                /\ Len(conns[c].received) = 2
                /\ conns[c].received[1] = Progress("Connected")
                /\ task.status = "completed" =>
                      conns[c].received[2] = Complete(TRUE, task.deployInfo)
                /\ task.status = "failed" =>
                      /\ conns[c].received[2].type = "error"
                      /\ terminal.type = "error" => conns[c].received[2] = terminal
                /\ task.status \in {"completed", "failed"}
           /\ conns[c].ended => AttachedAfterTerminal(c)

\* A listener attached to a task that had completed with deploy info, after
\* five events of the task had been published, and was ended with the stored
\* result.
C17_Witness ==
    \E c \in DOMAIN conns :
        /\ conns[c].ended
        /\ conns[c].since >= 5
        /\ conns[c].received = <<Progress("Connected"), Complete(TRUE, TRUE)>>

\* The plugins, by position, that do a given thing for a hook.
PluginsThat(hook, what) == {i \in DOMAIN plugins : plugins[i][hook] = what}
Implementing(hook) == {i \in DOMAIN plugins : plugins[i][hook] # "absent"}
Least(S) == CHOOSE i \in S : \A j \in S : i <= j
Increasing(seq) == \A i, j \in DOMAIN seq : i < j => seq[i] < seq[j]
\* The plugins a run consults: those implementing the hook, in registration
\* order, up to the first that ends the run by a refusal or an exception.
ConsultedUpTo(hook, stops) ==
    {i \in Implementing(hook) : \A j \in stops : i <= j}

\* C18: a run of a before-hook (beforeAgentRun, beforeStage, beforePromote)
\* consults the plugins that implement it in registration order; it returns
\* the veto, with the reason, of the first plugin that vetoes and invokes no
\* plugin registered after that one; and a run that returns returns no veto
\* exactly when no plugin vetoes.
C18_FirstVetoWins ==
    hookRun.hook \in BeforeHooks =>
        LET h == hookRun.hook
            vetoers == PluginsThat(h, "veto")
            throwers == PluginsThat(h, "throw")
        IN /\ Increasing(hookRun.invoked)
           /\ Range(hookRun.invoked) = ConsultedUpTo(h, vetoers \cup throwers)
           /\ hookRun.outcome = "veto" =>
                 /\ hookRun.reason = Least(vetoers)
                 /\ \A i \in Range(hookRun.invoked) : i <= hookRun.reason
           /\ (vetoers # {} /\ \A i \in throwers : Least(vetoers) < i) =>
                 hookRun.outcome = "veto"
           /\ hookRun.outcome # "throw" =>
                 (hookRun.outcome = "null" <=> vetoers = {})

\* Two plugins veto the hook that was run: the run returned the veto of the
\* first one and did not invoke the second.
C18_Witness ==
    /\ hookRun.hook \in BeforeHooks
    /\ PluginsThat(hookRun.hook, "veto") = {1, 2}
    /\ hookRun.outcome = "veto" /\ hookRun.reason = 1
    /\ hookRun.invoked = <<1>>

\* C20: authorize consults the plugins that implement it in registration
\* order and returns the first explicit deny without consulting a later
\* plugin; a run that returns returns allowed exactly when no plugin denies,
\* also when no plugin implements authorize, so that an earlier plugin's
\* allow does not override a later plugin's deny.
C20_FirstDenyWins ==
    hookRun.hook = "authorize" =>
        LET deniers == PluginsThat("authorize", "deny")
            throwers == PluginsThat("authorize", "throw")
        IN /\ Increasing(hookRun.invoked)
           /\ Range(hookRun.invoked) = ConsultedUpTo("authorize", deniers \cup throwers)
           /\ hookRun.outcome = "deny" =>
                 /\ hookRun.reason = Least(deniers)
                 /\ \A i \in Range(hookRun.invoked) : i <= hookRun.reason
           /\ (deniers # {} /\ \A i \in throwers : Least(deniers) < i) =>
                 hookRun.outcome = "deny"
           /\ hookRun.outcome # "throw" =>
                 (hookRun.outcome = "allow" <=> deniers = {})
           /\ Implementing("authorize") = {} => hookRun.outcome = "allow"

\* The first plugin allows and the second denies: authorize consulted both
\* and returned the second one's deny.
C20_Witness ==
    /\ hookRun.hook = "authorize"
    /\ PluginsThat("authorize", "allow") = {1}
    /\ PluginsThat("authorize", "deny") = {2}
    /\ hookRun.invoked = <<1, 2>>
    /\ hookRun.outcome = "deny" /\ hookRun.reason = 2

\* C19: when a registered plugin vetoes beforeAgentRun for a task, the agent
\* is not run for the task: no step starts the agent of a task while the
\* run of beforeAgentRun over the registered plugins returns a veto.
AgentStarts(t) == tasks[t].pc # "agent" /\ tasks'[t].pc = "agent"
C19_VetoStopsAgent ==
    [][\A t \in Sessions :
          AgentStarts(t) => beforeAgentRun(plugins).outcome # "veto"]_vars

\* C21: resolveUserContext consults the plugins that implement it in
\* registration order and returns the first result that is not null, without
\* invoking a later plugin; a run that returns returns null exactly when
\* every plugin returns null or does not implement the hook.
C21_FirstContextWins ==
    hookRun.hook = "resolveUserContext" =>
        LET resolvers == PluginsThat("resolveUserContext", "ctx")
            throwers == PluginsThat("resolveUserContext", "throw")
        IN /\ Increasing(hookRun.invoked)
           /\ Range(hookRun.invoked) =
                 ConsultedUpTo("resolveUserContext", resolvers \cup throwers)
           /\ hookRun.outcome = "ctx" =>
                 /\ hookRun.reason = Least(resolvers)
                 /\ \A i \in Range(hookRun.invoked) : i <= hookRun.reason
           /\ (resolvers # {} /\ \A i \in throwers : Least(resolvers) < i) =>
                 hookRun.outcome = "ctx"
           /\ hookRun.outcome # "throw" =>
                 (hookRun.outcome = "null" <=>
                     \A i \in DOMAIN plugins :
                         plugins[i].resolveUserContext \in {"null", "absent"})

\* Both registered plugins return a user context: the run returned the
\* first plugin's context and did not invoke the second.
C21_Witness ==
    /\ hookRun.hook = "resolveUserContext"
    /\ PluginsThat("resolveUserContext", "ctx") = {1, 2}
    /\ hookRun.invoked = <<1>>
    /\ hookRun.outcome = "ctx" /\ hookRun.reason = 1

\* C22: when the audit hook of a plugin throws, the audit run still ends
\* normally, and the audit hook of every registered plugin that implements
\* it has been invoked, in registration order.
C22_AuditIsolated ==
    hookRun.hook = "audit" =>
        /\ hookRun.outcome = "done"
        /\ Increasing(hookRun.invoked)
        /\ Range(hookRun.invoked) = Implementing("audit")

\* The first plugin's audit hook throws; the second plugin's was invoked
\* after it and the run ended normally.
C22_Witness ==
    /\ hookRun.hook = "audit"
    /\ PluginsThat("audit", "throw") = {1}
    /\ PluginsThat("audit", "ok") = {2}
    /\ hookRun.invoked = <<1, 2>>
    /\ hookRun.outcome = "done"

C24_NoPlaceholderLeft ==
    \A t \in Sessions :
        executed[t] # << >> =>
            /\ PathText(getDeployPath(t)) \in Range(executed[t])
            /\ Dist \notin Range(executed[t])

\* C25: the deploy server answers a request without session cookie with the
\* default variant, and a request whose cookie names a session with a
\* deployed variant with that session's variant: the directory served is the
\* session's own, not the deploy root and not another session's, and the
\* content is that directory's.
C25_ProxyServesOwnVariant ==
    /\ (served.status # "none" /\ served.cookie = NoCookie) =>
          /\ served.status = "ok"
          /\ served.path = DeployRootPath
          /\ served.content = fs[DeployRootPath].files
    /\ (served.cookie \in Sessions /\ fs[getDeployPath(served.cookie)].exists) =>
          /\ served.status = "ok"
          /\ served.path = getDeployPath(served.cookie)
          /\ served.path # DeployRootPath
          /\ \A s \in Sessions \ {served.cookie} : served.path # getDeployPath(s)
          /\ served.content = fs[getDeployPath(served.cookie)].files

\* Two sessions have a built variant and a request with the cookie of the
\* second was answered with the second's build output.
C25_Witness ==
    /\ served.cookie = 2 /\ served.status = "ok"
    /\ fs[getDeployPath(1)].exists /\ fs[getDeployPath(2)].exists
    /\ served.content = fs[getDeployPath(2)].files
    /\ served.content # fs[getDeployPath(1)].files
    /\ served.content # fs[DeployRootPath].files
    /\ served.content # {}

\* The sessions an accepted rollback or reset of user u removes, and the
\* position and parent-link invariants of u's active entries in a ledger.
RemovedBy(l, u, target) ==
    {l[i].session_id : i \in {j \in ActiveIdx(l, u) :
        target = ResetToOriginal \/ l[j].chain_position > TargetPosition(l, target)}}
AcceptedRollback ==
    /\ RollbackStep
    /\ last'.target = ResetToOriginal \/ IsValidTarget(ledger, last'.user, last'.target)
PositionsOk(l, u) ==
    {l[i].chain_position : i \in ActiveIdx(l, u)} = 0..(Cardinality(ActiveIdx(l, u)) - 1)
ParentsOk(l, u) ==
    \A i \in ActiveIdx(l, u) :
        IF l[i].chain_position = 0 THEN l[i].parent_session_id = Null
        ELSE \E j \in ActiveIdx(l, u) :
                /\ l[j].chain_position = l[i].chain_position - 1
                /\ l[j].session_id = l[i].parent_session_id
\* A directory of a session has outlived the cleanup.
Lingers(disk, s) == disk[getStagePath(s)].exists \/ disk[getDeployPath(s)].exists

\* C26: when the deletion of a stage or deploy directory failed during a
\* rollback or reset (a directory of a removed session is still there after
\* the step), the entries to remove are nevertheless gone from the ledger,
\* the response reports success and names them, and the user's remaining
\* active entries have positions 0..n-1 and parent links to their
\* predecessors.
C26_FailedCleanupKeepsLedger ==
    [][(AcceptedRollback
          /\ \E s \in RemovedBy(ledger, last'.user, last'.target) : Lingers(fs', s)) =>
        LET u == last'.user
            removed == RemovedBy(ledger, u, last'.target)
        IN /\ last'.success
           /\ Range(last'.removed_sessions) = removed
           /\ removed \cap LedgerIds(ledger') = {}
           /\ \A i \in DOMAIN ledger' : ledger'[i].status = "active"
           /\ PositionsOk(ledger', u)
           /\ ParentsOk(ledger', u)]_vars

\* A rollback to session 1 removed session 2, whose stage directory could not
\* be deleted; session 1 is what is left of the chain.
C26_Witness ==
    /\ last.op = "rollback" /\ last.success /\ last.target = 1
    /\ last.removed_sessions = <<2>>
    /\ fs[getStagePath(2)].exists
    /\ LedgerIds(ledger) = {1}

\* C27: when the cleanup of one removed session fails during a rollback or
\* reset, the cleanup of every other removed session is still attempted: as
\* one removal fails in a step, the directories that are left after the step
\* belong to one removed session at most.
C27_CleanupContinues ==
    [][AcceptedRollback =>
        Cardinality({s \in RemovedBy(ledger, last'.user, last'.target) :
                        Lingers(fs', s)}) <= 1]_vars

\* C28: when a task has a parent session whose stage directory does not
\* exist, the stage step creates the task's stage from the original project
\* source (filtered, with workspace dependencies resolved) and returns: the
\* task goes on to its agent run and no error is published for it.
ParentStageMissing(t) ==
    tasks[t].parent # Null /\ ~fs[getStagePath(tasks[t].parent)].exists
C28_MissingParentFallsBack ==
    [][\A t \in Sessions :
          (StageStep(t) /\ ParentStageMissing(t)) =>
              /\ fs'[getStagePath(t)] =
                    Dir(resolveWorkspaceDependencies(copyFiltered(fs[SourcePath].files)))
              /\ fs'[getStagePath(t)].files # {}
              /\ tasks'[t].status = "running"
              /\ ~tasks'[t].error
              /\ published'[t] = <<Progress("Stage created")>>]_vars

\* Task 2 chains from task 1, whose stage directory was never made; task 2
\* has its stage, with the source's files, and its agent is running.
C28_Witness ==
    /\ tasks[2].parent = 1
    /\ ~fs[getStagePath(1)].exists
    /\ tasks[2].pc = "agent"
    /\ fs[getStagePath(2)].exists
    /\ fs[getStagePath(2)].files =
          resolveWorkspaceDependencies(copyFiltered(fs[SourcePath].files))

\* C29: the chain query answers with exactly the requesting user's active
\* entries, in ascending chain_position order; in a chain that is not empty
\* the last entry, and no other, is marked current and current_session_id is
\* its session id; for a user without active entries the chain is empty and
\* current_session_id is null.
C29_ChainQuery ==
    last.op = "chain" =>
        LET c == last.chain
            act == ActiveIdx(ledger, last.user)
        IN /\ Len(c) = Cardinality(act)
           /\ \A i \in DOMAIN c :
                 \E j \in act : /\ ledger[j].session_id = c[i].session_id
                                /\ ledger[j].chain_position = c[i].chain_position
           /\ \A j \in act : \E i \in DOMAIN c : c[i].session_id = ledger[j].session_id
           /\ \A i, j \in DOMAIN c : i < j => c[i].chain_position < c[j].chain_position
           /\ \A i \in DOMAIN c : c[i].is_current <=> i = Len(c)
           /\ last.current_session_id =
                 IF c = << >> THEN Null ELSE c[Len(c)].session_id
           /\ act = {} => c = << >> /\ last.current_session_id = Null

\* A user with two active entries, in a ledger that also holds the other
\* user's entry, asked for the chain.
C29_Witness ==
    /\ last.op = "chain"
    /\ Len(last.chain) = 2
    /\ last.chain[2].is_current /\ ~last.chain[1].is_current
    /\ last.current_session_id = last.chain[2].session_id
    /\ \E i \in DOMAIN ledger : ledger[i].appmorph_user_id # last.user

\* C30: after loading a file in which no entry has chain metadata, each
\* user's entries are all active, have the positions 0..n-1 in ascending
\* created_at order, and have as parent the session of the entry just before
\* them in that order (null for the first): the position and parent-link
\* invariants hold right after the load.
CreatedAt(s) == (CHOOSE e \in Range(file) : e.session_id = s).created_at
C30_MigrationBackfillsChain ==
    ledger # << >> =>
        \A u \in Users :
            /\ \A i \in DOMAIN ledger : ledger[i].status = "active"
            /\ PositionsOk(ledger, u)
            /\ ParentsOk(ledger, u)
            /\ \A i, j \in ActiveIdx(ledger, u) :
                  ledger[i].chain_position < ledger[j].chain_position =>
                      CreatedAt(ledger[i].session_id) <= CreatedAt(ledger[j].session_id)
            /\ Len(ledger) = Len(file)

\* A user's three entries were in the file in descending created_at order,
\* and were loaded with the positions reversed: the last entry of the file
\* is the first of the chain, and the parent of the one before it.
C30_Witness ==
    /\ Len(ledger) = 3
    /\ \A i \in 1..3 : ledger[i].appmorph_user_id = "u1"
    /\ CreatedAt(1) > CreatedAt(2) /\ CreatedAt(2) > CreatedAt(3)
    /\ ledger[3].chain_position = 0 /\ ledger[3].parent_session_id = Null
    /\ ledger[2].chain_position = 1 /\ ledger[2].parent_session_id = 3
    /\ ledger[1].chain_position = 2 /\ ledger[1].parent_session_id = 2

\* C31: constructing the store from a file that is unreadable or is not valid
\* JSON does not throw and gives a store with no entries, and the next
\* operation on that store does what it does on an empty ledger: an added
\* entry gets position 0 and no parent, marking and deleting change nothing
\* and return nothing, and a save that succeeds replaces the damaged file.
C31_CorruptFileLoadsEmpty ==
    [][/\ (file = Corrupt /\ last'.op = "load") =>
            (last'.success /\ ledger' = << >>)
       /\ (file = Corrupt /\ last.op = "load" /\ last'.op = "add") =>
            /\ ledger' = <<Entry(nextId', last'.user, 0, Null)>>
            /\ file' \in {Corrupt, saveData(file, ledger', TRUE)}
       /\ (file = Corrupt /\ last.op = "load" /\ last'.op \in {"mark", "delete"}) =>
            (ledger' = << >> /\ last'.removed_sessions = << >>)]_vars

\* The store held entries, the file was damaged, and the store constructed
\* after that is empty.
C31_Witness ==
    /\ last.op = "load" /\ last.success
    /\ file = Corrupt
    /\ nextId > 0
    /\ ledger = << >>

\* C34: rollbackToPosition(U, k) keeps the number and order of the entries
\* and leaves every entry of another user, and every active entry of U at a
\* position <= k, with the same fields; deleteRolledBackEntries(U) removes
\* exactly U's rolled_back entries, keeps all the others with their fields in
\* their order, and returns exactly the session ids it removed.
KeptIdx(l, u) ==
    {i \in DOMAIN l : ~(l[i].appmorph_user_id = u /\ l[i].status = "rolled_back")}
C34_OnlyOwnEntriesChange ==
    [][/\ last'.op = "mark" =>
            /\ Len(ledger') = Len(ledger)
            /\ \A i \in DOMAIN ledger :
                  /\ ledger'[i].session_id = ledger[i].session_id
                  /\ (\/ ledger[i].appmorph_user_id # last'.user
                      \/ /\ ledger[i].status = "active"
                         /\ ledger[i].chain_position <= last'.target) =>
                        ledger'[i] = ledger[i]
       /\ last'.op = "delete" =>
            /\ Len(ledger') = Cardinality(KeptIdx(ledger, last'.user))
            /\ \A i \in KeptIdx(ledger, last'.user) :
                  ledger'[Cardinality({j \in KeptIdx(ledger, last'.user) : j <= i})]
                      = ledger[i]
            /\ Range(last'.removed_sessions) =
                  {ledger[i].session_id :
                      i \in DOMAIN ledger \ KeptIdx(ledger, last'.user)}
            /\ Len(last'.removed_sessions) =
                  Len(ledger) - Cardinality(KeptIdx(ledger, last'.user))]_vars

\* One user's rolled_back entry was deleted while a rolled_back entry of the
\* other user and an active entry of the same user stayed in the ledger.
C34_Witness ==
    /\ last.op = "delete"
    /\ Len(last.removed_sessions) = 1
    /\ \E i, j \in DOMAIN ledger :
          /\ ledger[i].appmorph_user_id # last.user
          /\ ledger[i].status = "rolled_back"
          /\ ledger[j].appmorph_user_id = last.user
          /\ ledger[j].status = "active"

\* The last step was a mutation of the store.
Mutated == last.op \in {"add", "mark", "delete"}

C33_ParentAgentTerminated ==
    [][\A t \in Sessions :
         (/\ StageStep(t)
          /\ tasks[t].parent # Null
          /\ fs[getStagePath(tasks[t].parent)].exists) =>
            tasks[tasks[t].parent].pc # "agent"]_vars

\* C35: of the events published for a task, at most one is terminal (complete
\* or error) and it is the last one, so no progress event follows it; an
\* execution that got past staging and is over has published exactly one, and
\* one whose agent is still running has published none.
TerminalIdx(t) ==
    {i \in DOMAIN published[t] : published[t][i].type \in {"complete", "error"}}
C35_OneTerminalEvent ==
    \A t \in Sessions :
        /\ Cardinality(TerminalIdx(t)) <= 1
        /\ \A i \in TerminalIdx(t) : i = Len(published[t])
        /\ (tasks[t].pc = "done" /\ published[t] # << >>) =>
              Cardinality(TerminalIdx(t)) = 1
        /\ tasks[t].pc \in {"pending", "agent"} => TerminalIdx(t) = {}

\* One execution ended with an error event after two progress events, and
\* another with a complete event.
C35_Witness ==
    \E t, r \in Sessions :
        /\ tasks[t].pc = "done" /\ tasks[r].pc = "done"
        /\ Len(published[t]) = 3
        /\ published[t][3].type = "error"
        /\ published[r] # << >>
        /\ published[r][Len(published[r])].type = "complete"

\* C36: abort(taskId) returns true exactly when the task's execution is
\* between the start of its agent run and the end of execute, and false
\* before staging has finished, after the execution ended and for an unknown
\* id; the executor holds a running-task record exactly for the tasks in that
\* interval, so every exit of execute removes it; and a call of abort leaves
\* the task store, the ledger, the directories and the published events as
\* they were.
C36_AbortOnlyReports ==
    [][/\ \A t \in Sessions : tasks'[t].running <=> tasks'[t].pc = "agent"
       /\ last'.op = "abort" =>
            /\ last'.success <=>
                  (last'.target \in Sessions /\ tasks[last'.target].pc = "agent")
            /\ tasks' = tasks /\ ledger' = ledger /\ fs' = fs
            /\ published' = published /\ conns' = conns]_vars

\* abort returned true for a task whose agent is running, while another
\* task of the run has already ended.
C36_Witness ==
    /\ last.op = "abort" /\ last.success
    /\ last.target \in Sessions
    /\ tasks[last.target].pc = "agent"
    /\ \E t \in Sessions : tasks[t].pc = "done" /\ ~tasks[t].running

\* C37: a rollback whose target is already the head of the user's chain
\* answers success with no removed session and the target as current, and
\* leaves the ledger and every directory as they were; so does a rollback
\* that repeats the accepted rollback served just before it (same user, same
\* target).
IsHead(l, u, target) ==
    HasLatest(l, u) /\ getLatestTaskForUser(l, u).session_id = target
RepeatsRollback ==
    /\ last.op = "rollback" /\ last.success
    /\ RollbackStep
    /\ last'.user = last.user /\ last'.target = last.target
C37_RollbackToHeadIsNoOp ==
    [][((RollbackStep /\ IsHead(ledger, last'.user, last'.target)) \/ RepeatsRollback) =>
         /\ last'.success
         /\ last'.removed_sessions = << >>
         /\ last'.current_session_id =
               (IF last'.target = ResetToOriginal THEN Null ELSE last'.target)
         /\ ledger' = ledger
         /\ fs' = fs
         /\ file' = file]_vars

\* Tasks 1 and 2 were created and staged, a rollback to task 1 removed task 2,
\* and the rollback to task 1 was repeated: nothing was removed.
C37_Witness ==
    /\ last.op = "rollback" /\ last.success /\ last.target = 1
    /\ last.removed_sessions = << >>
    /\ nextId = 2 /\ budget = 0
    /\ SessionIds(ledger) = <<1>>
    /\ fs[getStagePath(1)].exists /\ ~fs[getStagePath(2)].exists
    /\ tasks[2].pc # "pending"

\* C39: the connection registry holds no listener for a task that is
\* completed or failed.
C39_NoListenerAfterTerminal ==
    \A t \in Sessions :
        tasks[t].status \in {"completed", "failed"} => taskConnections[t] = << >>

\* C40: every message given to the sanitizer is in at most one delivered
\* summary batch; and right after abortTask, or after the flush started by
\* completeTask has ended, the task has no buffer and no running interval.
C40_SanitizerSettles ==
    /\ \A m \in 1..sanitizer.added :
          Cardinality({i \in DOMAIN sanitizer.summaries :
                          m \in Range(sanitizer.summaries[i].messages)}) <= 1
    /\ last.op \in {"completed", "abortTask"} =>
          /\ ~sanitizer.taskBuffers[last.target].exists
          /\ ~sanitizer.taskBuffers[last.target].timer
          /\ sanitizer.intervals[last.target] = 0

====
